---- MODULE Spec2Model ----
(***************************************************************************)
(* General Pod Autoscaler controller (pkg/scaler): the reconcile of one    *)
(* GPA (gates, decision pipeline, legacy and behavior normalizers, rolling *)
(* windows, status), the per-policy rate limits as pure functions, and the *)
(* worker pool around the rate-limited work queue with the three map       *)
(* mutexes.                                                                *)
(*                                                                         *)
(* Time is an integer number of seconds.  A reconcile reads the clock      *)
(* once; the code's successive time.Now() calls inside one reconcile are   *)
(* taken to return the same instant.                                       *)
(***************************************************************************)
EXTENDS Integers, Sequences, FiniteSets, TLC

(* ------------------------------ bounds --------------------------------- *)
\* last instant of the modelled clock
MaxTime == 2
\* largest replica count the environment sets on the target by hand
MaxExternalReplicas == 6
\* largest replica proposal a metric or scaler returns
MaxProposal == 6

(* --------------------------- program constants ------------------------- *)
scaleUpLimitFactor == 2
scaleUpLimitMinimum == 4
MaxInt32 == 2147483647
\* a nil *int32
Nil == -1

(* ------------------------------ helpers -------------------------------- *)
max(a, b) == IF a >= b THEN a ELSE b

min(a, b) == IF a <= b THEN a ELSE b

\* math.Ceil(float64(n) * (100+v)/100) for an integer n; exact for the
\* percentages used below (v/100 is a dyadic rational)
CeilDiv100(x) == IF x >= 0 THEN (x + 99) \div 100 ELSE -((-x) \div 100)

\* int32(f) truncates toward zero
TruncDiv100(x) == IF x >= 0 THEN x \div 100 ELSE -((-x) \div 100)

(* ------------------- rate limits of the behavior path ------------------ *)
RECURSIVE SumChanges(_, _, _)
SumChanges(scaleEvents, i, cutoff) ==
  IF i > Len(scaleEvents) THEN 0
  ELSE (IF scaleEvents[i].timestamp > cutoff THEN scaleEvents[i].replicaChange ELSE 0)
       + SumChanges(scaleEvents, i + 1, cutoff)

getReplicasChangePerPeriod(periodSeconds, scaleEvents, now) ==
  SumChanges(scaleEvents, 1, now - periodSeconds)

\* int32(float64(periodStartReplicas) * (1 - float64(value)/100)), for the
\* percentages of the modelled policies and up to 200 replicas: the float64
\* factor is exact for 50 and 100; for 80 it is 0.19999999999999996, and
\* the product lies just below the quotient whenever that is a whole number
Float64PercentDown(periodStartReplicas, value) ==
  LET exact == periodStartReplicas * (100 - value)
  IN  IF value = 80 /\ periodStartReplicas > 0 /\ exact % 100 = 0
      THEN (exact \div 100) - 1
      ELSE TruncDiv100(exact)

ScaleUpProposal(policy, currentReplicas, scaleEvents, now) ==
  LET replicasAddedInCurrentPeriod == getReplicasChangePerPeriod(policy.periodSeconds, scaleEvents, now)
      periodStartReplicas == currentReplicas - replicasAddedInCurrentPeriod
  IN  IF policy.type = "Pods" THEN periodStartReplicas + policy.value
      ELSE CeilDiv100(periodStartReplicas * (100 + policy.value))

ScaleDownProposal(policy, currentReplicas, scaleEvents, now) ==
  LET replicasDeletedInCurrentPeriod == getReplicasChangePerPeriod(policy.periodSeconds, scaleEvents, now)
      periodStartReplicas == currentReplicas + replicasDeletedInCurrentPeriod
  IN  IF policy.type = "Pods" THEN periodStartReplicas - policy.value
      ELSE Float64PercentDown(periodStartReplicas, policy.value)

RECURSIVE UpLimitLoop(_, _, _, _, _, _)
UpLimitLoop(policies, i, result, selectMin, currentReplicas, evNow) ==
  IF i > Len(policies) THEN result
  ELSE LET proposed == ScaleUpProposal(policies[i], currentReplicas, evNow.events, evNow.now)
       IN  UpLimitLoop(policies, i + 1,
                       IF selectMin THEN min(result, proposed) ELSE max(result, proposed),
                       selectMin, currentReplicas, evNow)

calculateScaleUpLimitWithScalingRules(currentReplicas, scaleEvents, scalingRules, now) ==
  IF scalingRules.selectPolicy = "Disabled" THEN currentReplicas
  ELSE UpLimitLoop(scalingRules.policies, 1, 0, scalingRules.selectPolicy = "Min",
                   currentReplicas, [events |-> scaleEvents, now |-> now])

RECURSIVE DownLimitLoop(_, _, _, _, _, _)
DownLimitLoop(policies, i, result, selectMin, currentReplicas, evNow) ==
  IF i > Len(policies) THEN result
  ELSE LET proposed == ScaleDownProposal(policies[i], currentReplicas, evNow.events, evNow.now)
       IN  DownLimitLoop(policies, i + 1,
                         IF selectMin THEN max(result, proposed) ELSE min(result, proposed),
                         selectMin, currentReplicas, evNow)

calculateScaleDownLimitWithBehaviors(currentReplicas, scaleEvents, scalingRules, now) ==
  IF scalingRules.selectPolicy = "Disabled" THEN currentReplicas
  ELSE DownLimitLoop(scalingRules.policies, 1, MaxInt32, scalingRules.selectPolicy = "Min",
                     currentReplicas, [events |-> scaleEvents, now |-> now])

(* ------------------------- legacy normalizer --------------------------- *)
RECURSIVE StabilizeLoop(_, _, _, _)
StabilizeLoop(recs, i, cutoff, acc) ==
  IF i > Len(recs) THEN acc
  ELSE StabilizeLoop(recs, i + 1, cutoff,
         IF recs[i].timestamp < cutoff
         THEN [acc EXCEPT !.foundOldSample = TRUE, !.oldSampleIndex = i]
         ELSE IF recs[i].recommendation > acc.maxRecommendation
              THEN [acc EXCEPT !.maxRecommendation = recs[i].recommendation]
              ELSE acc)

stabilizeRecommendationNoWindow(recs, prenormalizedDesiredReplicas, now, window) ==
  [value |-> prenormalizedDesiredReplicas,
   recs  |-> Append(recs, [recommendation |-> prenormalizedDesiredReplicas, timestamp |-> now])]

\* returns the stabilized recommendation and the new recommendations[key]
stabilizeRecommendation(recs, prenormalizedDesiredReplicas, now, window) ==
  LET acc == StabilizeLoop(recs, 1, now - window,
                 [maxRecommendation |-> prenormalizedDesiredReplicas,
                  foundOldSample |-> FALSE, oldSampleIndex |-> 0])
      newRec == [recommendation |-> prenormalizedDesiredReplicas, timestamp |-> now]
  IN  [value |-> acc.maxRecommendation,
       recs  |-> IF acc.foundOldSample
                 THEN [recs EXCEPT ![acc.oldSampleIndex] = newRec]
                 ELSE Append(recs, newRec)]

calculateScaleUpLimit(currentReplicas) ==
  max(scaleUpLimitFactor * currentReplicas, scaleUpLimitMinimum)

convertDesiredReplicasUnclamped(currentReplicas, desiredReplicas, gpaMinReplicas, gpaMaxReplicas) ==
  [replicas |-> desiredReplicas, reason |-> "DesiredWithinRange"]

convertDesiredReplicasWithRules(currentReplicas, desiredReplicas, gpaMinReplicas, gpaMaxReplicas) ==
  LET minimumAllowedReplicas == gpaMinReplicas
      scaleUpLimit == calculateScaleUpLimit(currentReplicas)
      maximumAllowedReplicas == IF gpaMaxReplicas > scaleUpLimit THEN scaleUpLimit ELSE gpaMaxReplicas
      possibleLimitingCondition == IF gpaMaxReplicas > scaleUpLimit THEN "ScaleUpLimit" ELSE "TooManyReplicas"
  IN  IF desiredReplicas < minimumAllowedReplicas
      THEN [replicas |-> minimumAllowedReplicas, reason |-> "TooFewReplicas"]
      ELSE IF desiredReplicas > maximumAllowedReplicas
           THEN [replicas |-> maximumAllowedReplicas, reason |-> possibleLimitingCondition]
           ELSE [replicas |-> desiredReplicas, reason |-> "DesiredWithinRange"]

(* ------------------------ behavior normalizer -------------------------- *)
\* the scale-up branch also serves DesiredReplicas = CurrentReplicas
IsScaleUpDirection(desiredReplicas, currentReplicas) == desiredReplicas >= currentReplicas

RECURSIVE BehaviorStabilizeLoop(_, _, _, _, _)
BehaviorStabilizeLoop(recs, i, cut, up, acc) ==
  IF i > Len(recs) THEN acc
  ELSE LET rec  == recs[i]
           acc1 == IF rec.timestamp > cut.cutoff
                   THEN [acc EXCEPT !.recommendation =
                           IF up THEN min(rec.recommendation, acc.recommendation)
                                 ELSE max(rec.recommendation, acc.recommendation)]
                   ELSE acc
           acc2 == IF rec.timestamp < cut.obsoleteCutoff
                   THEN [acc1 EXCEPT !.foundOldSample = TRUE, !.oldSampleIndex = i]
                   ELSE acc1
       IN  BehaviorStabilizeLoop(recs, i + 1, cut, up, acc2)

\* args: [ScaleUpBehavior, ScaleDownBehavior, MinReplicas, MaxReplicas,
\*        CurrentReplicas, DesiredReplicas]
stabilizeRecommendationWithBehaviors(args, recs, now) ==
  LET up == IsScaleUpDirection(args.DesiredReplicas, args.CurrentReplicas)
      scaleDelaySeconds == IF up THEN args.ScaleUpBehavior.stabilizationWindowSeconds
                                 ELSE args.ScaleDownBehavior.stabilizationWindowSeconds
      maxDelaySeconds == max(args.ScaleUpBehavior.stabilizationWindowSeconds,
                             args.ScaleDownBehavior.stabilizationWindowSeconds)
      acc == BehaviorStabilizeLoop(recs, 1,
                 [cutoff |-> now - scaleDelaySeconds, obsoleteCutoff |-> now - maxDelaySeconds], up,
                 [recommendation |-> args.DesiredReplicas,
                  foundOldSample |-> FALSE, oldSampleIndex |-> 0])
      newRec == [recommendation |-> args.DesiredReplicas, timestamp |-> now]
  IN  [value  |-> acc.recommendation,
       reason |-> IF up THEN "ScaleUpStabilized" ELSE "ScaleDownStabilized",
       recs   |-> IF acc.foundOldSample
                  THEN [recs EXCEPT ![acc.oldSampleIndex] = newRec]
                  ELSE Append(recs, newRec)]

\* the rate conversion with the computed limits taken as they are
convertDesiredReplicasWithBehaviorRateUnpinned(args, upEvents, downEvents, now) ==
  IF args.DesiredReplicas > args.CurrentReplicas
  THEN LET scaleUpLimit == calculateScaleUpLimitWithScalingRules(args.CurrentReplicas, upEvents,
                                                                args.ScaleUpBehavior, now)
           maximumAllowedReplicas == IF args.MaxReplicas > scaleUpLimit THEN scaleUpLimit
                                     ELSE args.MaxReplicas
       IN  IF args.DesiredReplicas > maximumAllowedReplicas
           THEN [replicas |-> maximumAllowedReplicas,
                 reason |-> IF args.MaxReplicas > scaleUpLimit THEN "ScaleUpLimit"
                            ELSE "TooManyReplicas"]
           ELSE [replicas |-> args.DesiredReplicas, reason |-> "DesiredWithinRange"]
  ELSE IF args.DesiredReplicas < args.CurrentReplicas
  THEN LET scaleDownLimit == calculateScaleDownLimitWithBehaviors(args.CurrentReplicas, downEvents,
                                                                 args.ScaleDownBehavior, now)
           minimumAllowedReplicas == IF args.MinReplicas < scaleDownLimit THEN scaleDownLimit
                                     ELSE args.MinReplicas
       IN  IF args.DesiredReplicas < minimumAllowedReplicas
           THEN [replicas |-> minimumAllowedReplicas,
                 reason |-> IF args.MinReplicas < scaleDownLimit THEN "ScaleDownLimit"
                            ELSE "TooFewReplicas"]
           ELSE [replicas |-> args.DesiredReplicas, reason |-> "DesiredWithinRange"]
  ELSE [replicas |-> args.DesiredReplicas, reason |-> "DesiredWithinRange"]

convertDesiredReplicasWithBehaviorRate(args, upEvents, downEvents, now) ==
  IF args.DesiredReplicas > args.CurrentReplicas
  THEN LET computed == calculateScaleUpLimitWithScalingRules(args.CurrentReplicas, upEvents,
                                                            args.ScaleUpBehavior, now)
           scaleUpLimit == IF computed < args.CurrentReplicas THEN args.CurrentReplicas ELSE computed
           maximumAllowedReplicas == IF args.MaxReplicas > scaleUpLimit THEN scaleUpLimit
                                     ELSE args.MaxReplicas
           possibleLimitingReason == IF args.MaxReplicas > scaleUpLimit THEN "ScaleUpLimit"
                                     ELSE "TooManyReplicas"
       IN  IF args.DesiredReplicas > maximumAllowedReplicas
           THEN [replicas |-> maximumAllowedReplicas, reason |-> possibleLimitingReason]
           ELSE [replicas |-> args.DesiredReplicas, reason |-> "DesiredWithinRange"]
  ELSE IF args.DesiredReplicas < args.CurrentReplicas
  THEN LET computed == calculateScaleDownLimitWithBehaviors(args.CurrentReplicas, downEvents,
                                                           args.ScaleDownBehavior, now)
           scaleDownLimit == IF computed > args.CurrentReplicas THEN args.CurrentReplicas ELSE computed
           minimumAllowedReplicas == IF args.MinReplicas < scaleDownLimit THEN scaleDownLimit
                                     ELSE args.MinReplicas
           possibleLimitingReason == IF args.MinReplicas < scaleDownLimit THEN "ScaleDownLimit"
                                     ELSE "TooFewReplicas"
       IN  IF args.DesiredReplicas < minimumAllowedReplicas
           THEN [replicas |-> minimumAllowedReplicas, reason |-> possibleLimitingReason]
           ELSE [replicas |-> args.DesiredReplicas, reason |-> "DesiredWithinRange"]
  ELSE [replicas |-> args.DesiredReplicas, reason |-> "DesiredWithinRange"]

(* --------------------------- scale event log --------------------------- *)
RECURSIVE LongestLoop(_, _, _)
LongestLoop(policies, i, longest) ==
  IF i > Len(policies) THEN longest
  ELSE LongestLoop(policies, i + 1,
                   IF policies[i].periodSeconds > longest THEN policies[i].periodSeconds ELSE longest)

getLongestPolicyPeriod(scalingRules) == LongestLoop(scalingRules.policies, 1, 0)

markScaleEventsOutdated(scaleEvents, longestPolicyPeriod, now) ==
  [i \in 1..Len(scaleEvents) |->
     IF scaleEvents[i].timestamp < now - longestPolicyPeriod
     THEN [scaleEvents[i] EXCEPT !.outdated = TRUE]
     ELSE scaleEvents[i]]

\* index of the last slot marked outdated, 0 when there is none
RECURSIVE LastOutdated(_, _, _)
LastOutdated(scaleEvents, i, idx) ==
  IF i > Len(scaleEvents) THEN idx
  ELSE LastOutdated(scaleEvents, i + 1, IF scaleEvents[i].outdated THEN i ELSE idx)

StoreIn(scaleEvents, scalingRules, replicaChange, now) ==
  LET marked == markScaleEventsOutdated(scaleEvents, getLongestPolicyPeriod(scalingRules), now)
      oldSampleIndex == LastOutdated(marked, 1, 0)
      newEvent == [replicaChange |-> replicaChange, timestamp |-> now, outdated |-> FALSE]
  IN  IF oldSampleIndex # 0 THEN [marked EXCEPT ![oldSampleIndex] = newEvent]
      ELSE Append(marked, newEvent)

\* returns the new scaleUpEvents[key] and scaleDownEvents[key]
storeScaleEvent(spec, upEvents, downEvents, prevReplicas, newReplicas, now) ==
  IF ~spec.behaviorSet THEN [up |-> upEvents, down |-> downEvents]
  ELSE IF newReplicas > prevReplicas
       THEN [up   |-> StoreIn(upEvents, spec.scaleUp, newReplicas - prevReplicas, now),
             down |-> downEvents]
       ELSE [up   |-> upEvents,
             down |-> StoreIn(downEvents, spec.scaleDown, prevReplicas - newReplicas, now)]

(* ----------------------------- conditions ------------------------------ *)
RECURSIVE FindCondition(_, _, _)
FindCondition(list, i, conditionType) ==
  IF i > Len(list) THEN 0
  ELSE IF list[i].type = conditionType THEN i
       ELSE FindCondition(list, i + 1, conditionType)

setConditionAlwaysStamps(inputList, conditionType, status, reason, message, now) ==
  LET found == FindCondition(inputList, 1, conditionType)
      cond  == [type |-> conditionType, status |-> status, reason |-> reason,
                message |-> message, lastTransitionTime |-> now]
  IN  IF found = 0 THEN Append(inputList, cond) ELSE [inputList EXCEPT ![found] = cond]

setConditionAppends(inputList, conditionType, status, reason, message, now) ==
  Append(inputList, [type |-> conditionType, status |-> status, reason |-> reason,
                     message |-> message, lastTransitionTime |-> now])

setConditionInList(inputList, conditionType, status, reason, message, now) ==
  LET found   == FindCondition(inputList, 1, conditionType)
      resList == IF found = 0
                 THEN Append(inputList, [type |-> conditionType, status |-> "", reason |-> "",
                                         message |-> 0, lastTransitionTime |-> 0])
                 ELSE inputList
      idx     == IF found = 0 THEN Len(resList) ELSE found
      ltt     == IF resList[idx].status # status THEN now ELSE resList[idx].lastTransitionTime
  IN  [resList EXCEPT ![idx] = [type |-> conditionType, status |-> status, reason |-> reason,
                                message |-> message, lastTransitionTime |-> ltt]]

(* --------------------------- cron resolver ----------------------------- *)
\* the entries NewCronMetricsScaler keeps as defaultSet: the last "default"
RECURSIVE DefaultSetLoop(_, _, _)
DefaultSetLoop(ranges, i, def) ==
  IF i > Len(ranges) THEN def
  ELSE DefaultSetLoop(ranges, i + 1, IF ranges[i].schedule = "default" THEN ranges[i] ELSE def)

ZeroCronMetricSpec == [schedule |-> "", minReplicas |-> Nil, maxReplicas |-> 0, priority |-> 0]

\* the priority loop over crs, the active non-default entries in list order
RECURSIVE MaxPriorityLoop(_, _, _, _)
MaxPriorityLoop(ranges, i, active, acc) ==
  IF i > Len(ranges) THEN acc
  ELSE MaxPriorityLoop(ranges, i + 1, active,
         IF i \in active /\ ranges[i].schedule # "default" /\ ranges[i].priority >= acc.maxPriority
         THEN [maxPriority |-> ranges[i].priority, maxCr |-> ranges[i]]
         ELSE acc)

\* the goroutine panics inside GetCurrentMaxAndMinReplicas
NilDereference == [max |-> 0, min |-> 0, scheduleName |-> "", panicked |-> TRUE]

\* active: the indices of the entries whose window test passes at now
GetCurrentMaxAndMinReplicas(ranges, active) ==
  LET defaultSet == DefaultSetLoop(ranges, 1, ZeroCronMetricSpec)
      crs == {i \in active : ranges[i].schedule # "default"}
      acc == MaxPriorityLoop(ranges, 1, active, [maxPriority |-> 0, maxCr |-> ZeroCronMetricSpec])
  IN  IF defaultSet.maxReplicas = 0 /\ defaultSet.minReplicas = Nil
      THEN [max |-> 2, min |-> 4, scheduleName |-> "default empty", panicked |-> FALSE]
      ELSE IF defaultSet.minReplicas = Nil
           \* min = *s.defaultSet.MinReplicas dereferences nil
           THEN NilDereference
           ELSE IF crs = {}
                THEN [max |-> defaultSet.maxReplicas, min |-> defaultSet.minReplicas,
                      scheduleName |-> defaultSet.schedule, panicked |-> FALSE]
                ELSE IF acc.maxCr.minReplicas = Nil
                     \* min = *maxCr.MinReplicas dereferences nil
                     THEN NilDereference
                     ELSE [max |-> acc.maxCr.maxReplicas, min |-> acc.maxCr.minReplicas,
                           scheduleName |-> acc.maxCr.schedule, panicked |-> FALSE]

\* number of entries GetCurrentCronMetricSpecs returns for the schedule
RECURSIVE CountSchedule(_, _, _)
CountSchedule(ranges, i, schedule) ==
  IF i > Len(ranges) THEN 0
  ELSE (IF ranges[i].schedule = schedule THEN 1 ELSE 0) + CountSchedule(ranges, i + 1, schedule)

GetCurrentCronMetricSpecs(ranges, schedule) == CountSchedule(ranges, 1, schedule)

(* -------------------------- decision pipeline -------------------------- *)
SetCond(g, conditionType, status, reason, message, now) ==
  [g EXCEPT !.status.conditions = setConditionInList(@, conditionType, status, reason, message, now)]

\* computeReplicasForCronMetric clamps each proposal to the cron window
ClampProposal(replicaCountProposal, lo, hi) ==
  LET p1 == IF replicaCountProposal < lo THEN lo ELSE replicaCountProposal
  IN  IF p1 > hi THEN hi ELSE p1

\* the loop over metricSpecs; outcomes[i] is what the replica calculator
\* returned for metric i: [err, replicas]
RECURSIVE MetricsLoop(_, _, _)
MetricsLoop(outcomes, i, acc) ==
  IF i > Len(outcomes) THEN acc
  ELSE LET o  == outcomes[i]
           a1 == IF o.err
                 THEN [acc EXCEPT !.invalidMetricsCount = @ + 1,
                                  !.firstInvalid = IF acc.invalidMetricsCount <= 0 THEN i ELSE @]
                 ELSE acc
           a2 == IF ~o.err /\ (a1.replicas = 0 \/ o.replicas > a1.replicas)
                 THEN [a1 EXCEPT !.replicas = o.replicas, !.metric = i]
                 ELSE a1
       IN  MetricsLoop(outcomes, i + 1, a2)

\* computeReplicasForMetrics and computeReplicasForCronMetrics (clamp = TRUE)
computeReplicasForMetrics(g, selector, outcomes, clamp, now) ==
  IF selector = ""
  THEN [err |-> TRUE, replicas |-> 0, metric |-> 0, statuses |-> <<>>,
        events |-> {"SelectorRequired"},
        gpa |-> SetCond(g, "ScalingActive", "False", "InvalidSelector", 0, now)]
  ELSE LET lo == g.spec.minReplicas
           hi == g.spec.maxReplicas
           outs == [i \in 1..Len(outcomes) |->
                      IF clamp /\ ~outcomes[i].err
                      THEN [outcomes[i] EXCEPT !.replicas = ClampProposal(@, lo, hi)]
                      ELSE outcomes[i]]
           acc == MetricsLoop(outs, 1, [invalidMetricsCount |-> 0, firstInvalid |-> 0,
                                        replicas |-> 0, metric |-> 0])
           statuses == [i \in 1..Len(outs) |-> IF outs[i].err THEN 0 ELSE 1]
           failed == {i \in 1..Len(outs) : outs[i].err}
       IN  IF acc.invalidMetricsCount >= Len(outs)
           THEN [err |-> TRUE, replicas |-> 0, metric |-> 0, statuses |-> statuses,
                 events |-> IF failed = {} THEN {} ELSE {"FailedGetMetric"},
                 gpa |-> IF acc.firstInvalid = 0
                         THEN SetCond(g, "", "", "", 0, now)
                         ELSE SetCond(g, "ScalingActive", "False", "FailedGetMetric", acc.firstInvalid, now)]
           ELSE [err |-> FALSE, replicas |-> acc.replicas, metric |-> acc.metric, statuses |-> statuses,
                 events |-> IF failed = {} THEN {} ELSE {"FailedGetMetric"},
                 gpa |-> SetCond(g, "ScalingActive", "True", "ValidMetricFound", acc.metric, now)]

\* computeDesiredSize over the scaler chain (webhook, time); outcomes[i] is
\* what scaler i returned
RECURSIVE ChainLoop(_, _, _)
ChainLoop(outcomes, i, acc) ==
  IF i > Len(outcomes) THEN acc
  ELSE ChainLoop(outcomes, i + 1,
         IF outcomes[i].err THEN [acc EXCEPT !.errs = TRUE]
         ELSE IF outcomes[i].replicas > acc.replicas
              THEN [acc EXCEPT !.replicas = outcomes[i].replicas, !.name = i]
              ELSE acc)

computeDesiredSize(outcomes) == ChainLoop(outcomes, 1, [replicas |-> 0, name |-> 0, errs |-> FALSE])

computeReplicasForSimple(g, selector, outcomes, now) ==
  IF selector = ""
  THEN [err |-> TRUE, replicas |-> 0, metric |-> 0, statuses |-> <<>>,
        events |-> {"SelectorRequired"},
        gpa |-> SetCond(g, "ScalingActive", "False", "InvalidSelector", 0, now)]
  ELSE LET r == computeDesiredSize(outcomes)
       IN  IF r.errs
           THEN [err |-> TRUE, replicas |-> 0, metric |-> 0, statuses |-> <<>>, events |-> {},
                 gpa |-> SetCond(g, "ScalingActive", "False", "ModeFailed", r.name, now)]
           ELSE [err |-> FALSE, replicas |-> r.replicas, metric |-> r.name, statuses |-> <<>>,
                 events |-> {},
                 gpa |-> SetCond(g, "ScalingActive", "True", "ValidMetricFound", 0, now)]

(* ------------------ normalizers as called by reconcile ------------------ *)
\* w: [recs, up, down], the three windows of the key
normalizeDesiredReplicas(g, w, currentReplicas, prenormalizedDesiredReplicas, minReplicas, now, dsw) ==
  LET st == stabilizeRecommendation(w.recs, prenormalizedDesiredReplicas, now, dsw)
      g1 == IF st.value # prenormalizedDesiredReplicas
            THEN SetCond(g, "AbleToScale", "True", "ScaleDownStabilized", 0, now)
            ELSE SetCond(g, "AbleToScale", "True", "ReadyForNewScale", 0, now)
      cv == convertDesiredReplicasWithRules(currentReplicas, st.value, minReplicas, g.spec.maxReplicas)
      g2 == SetCond(g1, "ScalingLimited",
                    IF cv.replicas = st.value THEN "False" ELSE "True", cv.reason, 0, now)
  IN  [desired |-> cv.replicas, stabilized |-> st.value, gpa |-> g2,
       w |-> [w EXCEPT !.recs = st.recs]]

maybeInitScaleDownStabilizationWindow(g, dsw) ==
  IF g.spec.behaviorSet /\ g.spec.scaleDown.stabilizationWindowSeconds = Nil
  THEN [g EXCEPT !.spec.scaleDown.stabilizationWindowSeconds = dsw]
  ELSE g

normalizeDesiredReplicasWithBehaviors(g, w, currentReplicas, prenormalizedDesiredReplicas, minReplicas, now, dsw) ==
  LET g0 == maybeInitScaleDownStabilizationWindow(g, dsw)
      args == [ScaleUpBehavior |-> g0.spec.scaleUp, ScaleDownBehavior |-> g0.spec.scaleDown,
               MinReplicas |-> minReplicas, MaxReplicas |-> g0.spec.maxReplicas,
               CurrentReplicas |-> currentReplicas, DesiredReplicas |-> prenormalizedDesiredReplicas]
      st == stabilizeRecommendationWithBehaviors(args, w.recs, now)
      g1 == IF st.value # prenormalizedDesiredReplicas
            THEN SetCond(g0, "AbleToScale", "True", st.reason, 0, now)
            ELSE SetCond(g0, "AbleToScale", "True", "ReadyForNewScale", 0, now)
      cv == convertDesiredReplicasWithBehaviorRate([args EXCEPT !.DesiredReplicas = st.value],
                                                   w.up, w.down, now)
      g2 == SetCond(g1, "ScalingLimited",
                    IF cv.replicas = st.value THEN "False" ELSE "True", cv.reason, 0, now)
  IN  [desired |-> cv.replicas, stabilized |-> st.value, gpa |-> g2,
       w |-> [w EXCEPT !.recs = st.recs]]

(* ------------------------------- status -------------------------------- *)
setStatusAlwaysStamps(g, currentReplicas, desiredReplicas, metricStatuses, rescale, now) ==
  [g EXCEPT !.status =
     [currentReplicas      |-> currentReplicas,
      desiredReplicas      |-> desiredReplicas,
      lastScaleTime        |-> now,
      lastCronScheduleTime |-> now,
      currentMetrics       |-> metricStatuses,
      conditions           |-> g.status.conditions]]

setStatus(g, currentReplicas, desiredReplicas, metricStatuses, rescale, now) ==
  LET cronOrTime == g.spec.timeMode \/ g.spec.mode = "cron"
  IN  [g EXCEPT !.status =
         [currentReplicas      |-> currentReplicas,
          desiredReplicas      |-> desiredReplicas,
          lastScaleTime        |-> IF rescale THEN now ELSE g.status.lastScaleTime,
          lastCronScheduleTime |-> IF rescale /\ cronOrTime THEN now ELSE Nil,
          currentMetrics       |-> metricStatuses,
          conditions           |-> g.status.conditions]]

setCurrentAndDesiredInStatus(g, currentReplicas, now) ==
  setStatus(g, currentReplicas, currentReplicas, g.status.currentMetrics, FALSE, now)

setCurrentReplicasInStatusStamps(g, currentReplicas, now) ==
  setStatus(g, currentReplicas, g.status.desiredReplicas, g.status.currentMetrics, TRUE, now)

setCurrentReplicasInStatus(g, currentReplicas, now) ==
  setStatus(g, currentReplicas, g.status.desiredReplicas, g.status.currentMetrics, FALSE, now)

updateStatusUnconditionally(oldStatus, g, persisted, write) ==
  IF ~write.statusErr \/ ~write.updateErr
  THEN [attempted |-> TRUE, persisted |-> g.status, err |-> FALSE]
  ELSE [attempted |-> TRUE, persisted |-> persisted, err |-> TRUE]

\* write: [statusErr, updateErr], the answers of UpdateStatus and of the
\* fallback Update.  Returns whether a write was attempted, the status the
\* API server holds afterwards, and the returned error.
updateStatusIfNeeded(oldStatus, g, persisted, write) ==
  IF oldStatus = g.status
  THEN [attempted |-> FALSE, persisted |-> persisted, err |-> FALSE]
  ELSE IF ~write.statusErr
       THEN [attempted |-> TRUE, persisted |-> g.status, err |-> FALSE]
       ELSE IF ~write.updateErr
            THEN [attempted |-> TRUE, persisted |-> g.status, err |-> FALSE]
            ELSE [attempted |-> TRUE, persisted |-> persisted, err |-> TRUE]

recordInitialRecommendation(recs, currentReplicas, now) ==
  IF recs = <<>> THEN <<[recommendation |-> currentReplicas, timestamp |-> now]>> ELSE recs

(* ------------------------- reconcileAutoscaler -------------------------- *)
\* What one reconcile did: the mutated GPA object, the windows, the status
\* held by the API server, the scale Update call (Nil: none) and its
\* success, the events recorded, the returned error, whether the goroutine
\* panicked, and the values the decision went through (obs).
Ret(g, w, persisted, scaleCall, scaleOk, events, err, attempted, panicked, obs) ==
  [gpa |-> g, w |-> w, persisted |-> persisted, scaleCall |-> scaleCall, scaleOk |-> scaleOk,
   events |-> events, err |-> err, statusAttempted |-> attempted, panicked |-> panicked, obs |-> obs]

Obs(path, currentReplicas, minReplicas, maxReplicas, preDesired, stabilized, desired) ==
  [path |-> path, currentReplicas |-> currentReplicas, minReplicas |-> minReplicas,
   maxReplicas |-> maxReplicas, preDesired |-> preDesired, stabilized |-> stabilized,
   desired |-> desired]

NeedRescaleAlways(desiredReplicas, currentReplicas) == TRUE

\* the rescale decision after normalization
NeedRescale(desiredReplicas, currentReplicas) == desiredReplicas # currentReplicas

RefuseZeroNever(desiredReplicas) == FALSE

\* desiredReplicas = 0 is never written
RefuseZero(desiredReplicas) == desiredReplicas = 0

\* the tail of reconcileAutoscaler: the scale write, the event log, the status
Finish(g, w, persisted, cur, desired, rescale, metricStatuses, events, obs, in, orig, now) ==
  IF rescale
  THEN IF RefuseZero(desired)
       THEN Ret(g, w, persisted, Nil, FALSE, events \cup {"FailedRescale"}, TRUE, FALSE, FALSE, obs)
       ELSE IF in.scaleUpdateErr
            THEN LET g1 == SetCond(g, "AbleToScale", "False", "FailedUpdateScale", 0, now)
                     g2 == setCurrentReplicasInStatus(g1, cur, now)
                     u  == updateStatusIfNeeded(orig, g2, persisted, in)
                 IN  Ret(g2, w, u.persisted, desired, FALSE, events \cup {"FailedRescale"},
                         TRUE, u.attempted, FALSE, obs)
            ELSE IF g.spec.minReplicas = Nil
                 \* ScaleEvent{MinReplicas: *gpa.Spec.MinReplicas} dereferences nil
                 THEN Ret(g, w, persisted, desired, TRUE, events, TRUE, FALSE, TRUE, obs)
                 ELSE LET g1 == SetCond(g, "AbleToScale", "True", "SucceededRescale", desired, now)
                          ev == storeScaleEvent(g.spec, w.up, w.down, cur, desired, now)
                          g2 == setStatus(g1, cur, desired, metricStatuses, TRUE, now)
                          u  == updateStatusIfNeeded(orig, g2, persisted, in)
                      IN  Ret(g2, [w EXCEPT !.up = ev.up, !.down = ev.down], u.persisted, desired, TRUE,
                              events \cup {"SuccessfulRescale"}, u.err, u.attempted, FALSE, obs)
  ELSE LET g2 == setStatus(g, cur, cur, metricStatuses, FALSE, now)
           u  == updateStatusIfNeeded(orig, g2, persisted, in)
       IN  Ret(g2, w, u.persisted, Nil, FALSE, events, u.err, u.attempted, FALSE, obs)

GateNeverDisabled(currentReplicas, minReplicas, maxReplicas) ==
  IF currentReplicas > maxReplicas THEN "aboveMax"
  ELSE IF currentReplicas < minReplicas THEN "belowMin"
       ELSE "mode"

GateWithoutBounds(currentReplicas, minReplicas, maxReplicas) ==
  IF currentReplicas = 0 /\ minReplicas # 0 THEN "disabled" ELSE "mode"

\* the gates tested before any driving mode is evaluated, in the order of
\* the code
Gate(currentReplicas, minReplicas, maxReplicas) ==
  IF currentReplicas = 0 /\ minReplicas # 0 THEN "disabled"
  ELSE IF currentReplicas > maxReplicas THEN "aboveMax"
       ELSE IF currentReplicas < minReplicas THEN "belowMin"
            ELSE "mode"

\* in: [getScaleErr, selector, active, outcomes, scaleUpdateErr, statusErr, updateErr]
reconcileAutoscaler(g, currentReplicas, w, persisted, now, dsw, in) ==
  LET orig == g.status
  IN  IF in.getScaleErr
      THEN LET g1 == SetCond(g, "AbleToScale", "False", "FailedGetScale", 0, now)
               u  == updateStatusIfNeeded(orig, g1, persisted, in)
           IN  Ret(g1, w, u.persisted, Nil, FALSE, {"FailedGetScale"}, TRUE, u.attempted, FALSE,
                   Obs("getScaleErr", currentReplicas, 0, 0, 0, 0, 0))
      ELSE
      LET g1 == SetCond(g, "AbleToScale", "True", "SucceededGetScale", 0, now)
          w1 == [w EXCEPT !.recs = recordInitialRecommendation(@, currentReplicas, now)]
          cron == GetCurrentMaxAndMinReplicas(g1.spec.cronMetrics, in.active)
          g2 == IF g1.spec.mode = "cron"
                THEN [g1 EXCEPT !.spec.minReplicas = cron.min, !.spec.maxReplicas = cron.max]
                ELSE g1
          minReplicas == IF g2.spec.minReplicas # Nil THEN g2.spec.minReplicas ELSE 1
          maxReplicas == g2.spec.maxReplicas
          gate == Gate(currentReplicas, minReplicas, maxReplicas)
      IN  IF g1.spec.mode = "cron" /\ cron.panicked
          THEN Ret(g1, w1, persisted, Nil, FALSE, {}, TRUE, FALSE, TRUE,
                   Obs("cronPanic", currentReplicas, 0, 0, 0, 0, 0))
          ELSE IF gate = "disabled"
          THEN Finish(SetCond(g2, "ScalingActive", "False", "ScalingDisabled", 0, now), w1, persisted,
                      currentReplicas, 0, FALSE, <<>>, {}, 
                      Obs("disabled", currentReplicas, minReplicas, maxReplicas, 0, 0, 0), in, orig, now)
          ELSE IF gate = "aboveMax"
          THEN Finish(g2, w1, persisted, currentReplicas, maxReplicas, TRUE, <<>>, {},
                      Obs("aboveMax", currentReplicas, minReplicas, maxReplicas, 0, 0, maxReplicas),
                      in, orig, now)
          ELSE IF gate = "belowMin"
          THEN Finish(g2, w1, persisted, currentReplicas, minReplicas, TRUE, <<>>, {},
                      Obs("belowMin", currentReplicas, minReplicas, maxReplicas, 0, 0, minReplicas),
                      in, orig, now)
          ELSE IF g2.spec.mode = "empty"
          THEN Ret(g2, w1, persisted, Nil, FALSE, {}, FALSE, FALSE, FALSE,
                   Obs("emptyMode", currentReplicas, minReplicas, maxReplicas, 0, 0, 0))
          ELSE
          LET m == IF g2.spec.mode = "metric"
                   THEN computeReplicasForMetrics(g2, in.selector, in.outcomes, FALSE, now)
                   ELSE IF g2.spec.mode = "cron"
                        THEN computeReplicasForMetrics(g2, in.selector, in.outcomes, TRUE, now)
                        ELSE computeReplicasForSimple(g2, in.selector, in.outcomes, now)
          IN  IF m.err
              THEN LET g3 == setCurrentReplicasInStatus(m.gpa, currentReplicas, now)
                       u  == updateStatusIfNeeded(orig, g3, persisted, in)
                   IN  Ret(g3, w1, u.persisted, Nil, FALSE,
                           m.events \cup {"FailedComputeMetricsReplicas"}, TRUE, u.attempted, FALSE,
                           Obs("metricErr", currentReplicas, minReplicas, maxReplicas, 0, 0, 0))
              ELSE
              LET ev1 == m.events \cup (IF m.replicas > maxReplicas THEN {"FailedRescale"} ELSE {})
                  pre == IF m.replicas > 0 THEN m.replicas ELSE 0
                  n   == IF ~g2.spec.behaviorSet
                         THEN normalizeDesiredReplicas(m.gpa, w1, currentReplicas, pre, minReplicas, now, dsw)
                         ELSE normalizeDesiredReplicasWithBehaviors(m.gpa, w1, currentReplicas, pre,
                                                                    minReplicas, now, dsw)
              IN  Finish(n.gpa, n.w, persisted, currentReplicas, n.desired,
                         NeedRescale(n.desired, currentReplicas), m.statuses, ev1,
                         Obs(IF g2.spec.behaviorSet THEN "behavior" ELSE "legacy", currentReplicas,
                             minReplicas, maxReplicas, pre, n.stabilized, n.desired),
                         in, orig, now)

(* ======================= the reconcile of one GPA ======================= *)
\* controller-wide downscale stabilization window, in seconds
downscaleStabilisationWindow == 1

\* most changes of the target's replicas made by somebody else
MaxExternalChanges == 1
\* most reconciles in which a platform client answers with an error
MaxFaults == 1
\* spec.replicas of the target when the controller starts
InitialReplicas == 2

Proposals == {0, 3, MaxProposal}

ExternalReplicas == {0, 1, MaxExternalReplicas}

NoRules == [stabilizationWindowSeconds |-> 0, selectPolicy |-> "Max", policies |-> <<>>]

BaseSpec == [minReplicas |-> Nil, maxReplicas |-> 5, mode |-> "metric", metrics |-> 1,
             cronMetrics |-> <<>>, timeMode |-> FALSE, behaviorSet |-> FALSE,
             scaleUp |-> NoRules, scaleDown |-> NoRules]

UpRules == [stabilizationWindowSeconds |-> 0, selectPolicy |-> "Max",
            policies |-> <<[type |-> "Pods", value |-> 2, periodSeconds |-> 2]>>]

DownRules == [stabilizationWindowSeconds |-> Nil, selectPolicy |-> "Max",
              policies |-> <<[type |-> "Pods", value |-> 1, periodSeconds |-> 2]>>]

SlowUpRules == [stabilizationWindowSeconds |-> 2, selectPolicy |-> "Max",
                policies |-> <<[type |-> "Pods", value |-> 4, periodSeconds |-> 1]>>]

SlowDownRules == [stabilizationWindowSeconds |-> 2, selectPolicy |-> "Max",
                  policies |-> <<[type |-> "Pods", value |-> 4, periodSeconds |-> 1]>>]

CronEntries == <<[schedule |-> "s1", minReplicas |-> 0, maxReplicas |-> 3, priority |-> 1],
                 [schedule |-> "default", minReplicas |-> 2, maxReplicas |-> 4, priority |-> 0]>>

\* the GPA objects of the model, all accepted by the admission validator
GPASpecs ==
  { BaseSpec,
    [BaseSpec EXCEPT !.minReplicas = 2, !.metrics = 2],
    [BaseSpec EXCEPT !.minReplicas = 2, !.behaviorSet = TRUE,
                     !.scaleUp = UpRules, !.scaleDown = DownRules],
    [BaseSpec EXCEPT !.minReplicas = 1, !.behaviorSet = TRUE,
                     !.scaleUp = SlowUpRules, !.scaleDown = SlowDownRules],
    [BaseSpec EXCEPT !.mode = "cron", !.metrics = 0, !.cronMetrics = CronEntries],
    [BaseSpec EXCEPT !.minReplicas = 1, !.maxReplicas = 4, !.mode = "simple", !.metrics = 0,
                     !.timeMode = TRUE],
    [BaseSpec EXCEPT !.minReplicas = 1, !.mode = "empty", !.metrics = 0],
    [BaseSpec EXCEPT !.minReplicas = 1, !.maxReplicas = 3, !.metrics = 0] }

EmptyStatus == [currentReplicas |-> 0, desiredReplicas |-> 0, lastScaleTime |-> Nil,
                lastCronScheduleTime |-> Nil, currentMetrics |-> <<>>, conditions |-> <<>>]

EmptyWindows == [recs |-> <<>>, up |-> <<>>, down |-> <<>>]

NoLimitCase == [selectPolicy |-> "Disabled", policies |-> <<>>, currentReplicas |-> 0,
                scaleEvents |-> <<>>, now |-> 0]

NoLimitResult == [direction |-> "none", value |-> 0]

NoPureCase == [fn |-> "none"]

NoPureResult == [fn |-> "none"]

VARIABLES
  now,            \* the wall clock
  gpa,            \* the GPA object held by the informer cache: [spec, status]
  apiSpec,        \* the GPA spec held by the API server
  persisted,      \* the GPA status held by the API server
  syncPending,    \* a watch event of the GPA is on its way to the informer
  scaleReplicas,  \* spec.replicas of the target's scale subresource
  win,            \* recommendations[key], scaleUpEvents[key], scaleDownEvents[key]
  last,           \* what the latest reconcile did
  writes,         \* the successful scale writes still inside the longest policy period
  crashed,        \* a panic escaped the worker
  ranAt,          \* the key was reconciled at the present instant
  nExternal, nFaults,
  limitCase,      \* the arguments of one call of a per-direction limit function
  limitResult,    \* the direction asked for and the limit returned
  pureCase,       \* the arguments of one call of a pure function
  pureResult,     \* the function called and what it returned
  lister,         \* the keys of the GPAs in the informer cache
  wq,             \* the work queue: [queue, dirty, processing, waiting]
  worker,         \* per worker goroutine: [pc, key, deleted, acc, wrote]
  mutex,          \* per controller-wide map: the worker holding its mutex, 0 if free
  windows,        \* per controller-wide map: the keys that have an entry in it
  recordCronMetricsScheduleName,  \* the package variable of the cron scaler
  resolver        \* per worker: its call of GetCurrentMaxAndMinReplicas

dataVars == <<now, gpa, apiSpec, persisted, syncPending, scaleReplicas, win, last, writes, ranAt,
              nExternal, nFaults>>

limitVars == <<limitCase, limitResult, pureCase, pureResult>>

queueVars == <<lister, wq, worker, mutex, windows>>

cronVars == <<recordCronMetricsScheduleName, resolver>>

vars == <<dataVars, crashed, limitVars, queueVars, cronVars>>

NoReconcile ==
  [scaleCall |-> Nil, scaleOk |-> FALSE, events |-> {}, err |-> FALSE, statusAttempted |-> FALSE,
   panicked |-> FALSE, obs |-> Obs("none", 0, 0, 0, 0, 0, 0), recsBefore |-> <<>>,
   upBefore |-> <<>>, downBefore |-> <<>>, at |-> 0]

\* number of worker goroutines
NumWorkers == 2

Workers == 1..NumWorkers

Maps == {"recommendations", "scaleUpEvents", "scaleDownEvents"}

EmptyQueue == [queue |-> <<>>, dirty |-> {}, processing |-> {}, waiting |-> {},
               shuttingDown |-> FALSE]

IdleWorker == [pc |-> "Get", key |-> "", deleted |-> FALSE, acc |-> "", wrote |-> FALSE]

IdleResolver == [pc |-> "Idle", active |-> {}, max |-> 0, min |-> 0, returned |-> FALSE,
                 scheduleName |-> ""]

\* the cron scaler while no worker resolves a window
ResolverIdle ==
  /\ recordCronMetricsScheduleName = ""
  /\ resolver = [w \in Workers |-> IdleResolver]

\* the worker pool while it is not part of the run
QueueIdle ==
  /\ lister = {}
  /\ wq = EmptyQueue
  /\ worker = [w \in Workers |-> IdleWorker]
  /\ mutex = [m \in Maps |-> 0]
  /\ windows = [m \in Maps |-> {}]

Init ==
  /\ now = 0
  /\ apiSpec \in GPASpecs
  /\ gpa = [spec |-> apiSpec, status |-> EmptyStatus]
  /\ persisted = EmptyStatus
  /\ syncPending = FALSE
  /\ scaleReplicas = InitialReplicas
  /\ win = EmptyWindows
  /\ last = NoReconcile
  /\ writes = <<>>
  /\ crashed = FALSE
  /\ ranAt = FALSE
  /\ nExternal = 0
  /\ nFaults = 0
  /\ limitCase = NoLimitCase
  /\ limitResult = NoLimitResult
  /\ pureCase = NoPureCase
  /\ pureResult = NoPureResult
  /\ QueueIdle
  /\ ResolverIdle

\* how many metrics or scalers the selected mode evaluates
NumOutcomes(spec, active) ==
  IF spec.mode = "metric" THEN spec.metrics
  ELSE IF spec.mode = "cron"
       THEN GetCurrentCronMetricSpecs(spec.cronMetrics,
                                      GetCurrentMaxAndMinReplicas(spec.cronMetrics, active).scheduleName)
       ELSE IF spec.mode = "simple" THEN (IF spec.timeMode THEN 1 ELSE 0) ELSE 0

Outcome == {[err |-> TRUE, replicas |-> 0]} \cup {[err |-> FALSE, replicas |-> r] : r \in Proposals}

LongestPeriod(spec) == max(getLongestPolicyPeriod(spec.scaleUp), getLongestPolicyPeriod(spec.scaleDown))

RECURSIVE Prune(_, _)
Prune(ws, cutoff) ==
  IF ws = <<>> THEN <<>>
  ELSE IF Head(ws).timestamp <= cutoff THEN Prune(Tail(ws), cutoff)
       ELSE <<Head(ws)>> \o Prune(Tail(ws), cutoff)

\* what the platform clients answer during one reconcile: at most one of the
\* scale Get, the selector and the scale Update fails, and the status write
\* succeeds, succeeds through the fallback Update, or fails
Answers ==
  {[getScaleErr |-> a[1], selector |-> a[2], scaleUpdateErr |-> a[3], statusErr |-> b[1],
    updateErr |-> b[2]] :
     a \in {<<FALSE, "app", FALSE>>, <<TRUE, "app", FALSE>>, <<FALSE, "", FALSE>>,
            <<FALSE, "app", TRUE>>},
     b \in {<<FALSE, FALSE>>, <<TRUE, FALSE>>, <<TRUE, TRUE>>}}

NoFault == [getScaleErr |-> FALSE, selector |-> "app", scaleUpdateErr |-> FALSE,
            statusErr |-> FALSE, updateErr |-> FALSE]

\* one pass of reconcileKey for the key while its GPA is in the cache
Reconcile ==
  /\ ~crashed
  /\ ~ranAt
  /\ \E ans \in (IF nFaults < MaxFaults THEN Answers ELSE {NoFault}),
        active \in SUBSET {i \in 1..Len(gpa.spec.cronMetrics) : gpa.spec.cronMetrics[i].schedule # "default"} :
       \E outcomes \in [1..NumOutcomes(gpa.spec, active) -> Outcome] :
        \E r \in {reconcileAutoscaler(gpa, scaleReplicas, win, persisted, now,
                                      downscaleStabilisationWindow,
                                      [getScaleErr |-> ans.getScaleErr, selector |-> ans.selector,
                                       active |-> active, outcomes |-> outcomes,
                                       scaleUpdateErr |-> ans.scaleUpdateErr,
                                       statusErr |-> ans.statusErr, updateErr |-> ans.updateErr])} :
         LET wrote == r.scaleCall # Nil /\ r.scaleOk
         IN  /\ gpa' = r.gpa
             /\ win' = r.w
             /\ persisted' = r.persisted
             /\ syncPending' = (syncPending \/ (r.statusAttempted /\ r.persisted = r.gpa.status))
             /\ scaleReplicas' = IF wrote THEN r.scaleCall ELSE scaleReplicas
             /\ crashed' = r.panicked
             /\ last' = [scaleCall |-> r.scaleCall, scaleOk |-> r.scaleOk, events |-> r.events,
                         err |-> r.err, statusAttempted |-> r.statusAttempted,
                         panicked |-> r.panicked, obs |-> r.obs,
                         recsBefore |-> recordInitialRecommendation(win.recs, scaleReplicas, now),
                         upBefore |-> win.up, downBefore |-> win.down, at |-> now]
             /\ writes' = IF wrote
                          THEN Append(writes, [change |-> r.scaleCall - scaleReplicas, timestamp |-> now,
                                               path |-> r.obs.path])
                          ELSE writes
             /\ nFaults' = IF ans = NoFault THEN nFaults ELSE nFaults + 1
  /\ ranAt' = TRUE
  /\ UNCHANGED <<now, apiSpec, nExternal, limitVars, queueVars, cronVars>>

\* the informer delivers the object the API server holds
InformerSync ==
  /\ ~crashed
  /\ syncPending
  /\ ~ranAt
  /\ gpa' = [spec |-> apiSpec, status |-> persisted]
  /\ syncPending' = FALSE
  /\ UNCHANGED <<now, apiSpec, persisted, scaleReplicas, win, last, writes, crashed, ranAt,
                 nExternal, nFaults, limitVars, queueVars, cronVars>>

\* somebody else sets the target's replica count
ExternalScale ==
  /\ nExternal < MaxExternalChanges
  /\ ~ranAt
  /\ \E r \in ExternalReplicas :
       /\ r # scaleReplicas
       /\ scaleReplicas' = r
  /\ nExternal' = nExternal + 1
  /\ UNCHANGED <<now, gpa, apiSpec, persisted, syncPending, win, last, writes, crashed, ranAt,
                 nFaults, limitVars, queueVars, cronVars>>

Tick ==
  /\ now < MaxTime
  /\ now' = now + 1
  /\ ranAt' = FALSE
  /\ writes' = Prune(writes, now + 1 - LongestPeriod(apiSpec))
  /\ UNCHANGED <<gpa, apiSpec, persisted, syncPending, scaleReplicas, win, last, crashed,
                 nExternal, nFaults, limitVars, queueVars, cronVars>>

Next == Reconcile \/ InformerSync \/ ExternalScale \/ Tick

Spec == Init /\ [][Next]_vars

(* =============== the per-direction limits as pure functions ============= *)
\* largest replica count of a limit call
MaxLimitReplicas == 10
\* most policies of one direction
MaxPolicies == 2

LimitPolicies ==
  {[type |-> "Pods", value |-> 4, periodSeconds |-> 60],
   [type |-> "Pods", value |-> 1, periodSeconds |-> 1],
   [type |-> "Percent", value |-> 100, periodSeconds |-> 1],
   [type |-> "Percent", value |-> 50, periodSeconds |-> 2],
   [type |-> "Percent", value |-> 80, periodSeconds |-> 1]}

LimitEventLogs ==
  {<<>>} \cup {<<[replicaChange |-> c, timestamp |-> 0, outdated |-> FALSE]>> : c \in {1, 5}}

LimitCases ==
  [selectPolicy : {"Max", "Min", "Disabled"},
   policies : UNION {[1..n -> LimitPolicies] : n \in 1..MaxPolicies},
   currentReplicas : {2, 10, MaxLimitReplicas},
   scaleEvents : LimitEventLogs,
   now : {1}]

\* the state of the reconciled GPA while only the limit functions are called
DataIdle ==
  /\ now = 0
  /\ apiSpec = BaseSpec
  /\ gpa = [spec |-> BaseSpec, status |-> EmptyStatus]
  /\ persisted = EmptyStatus
  /\ syncPending = FALSE
  /\ scaleReplicas = InitialReplicas
  /\ win = EmptyWindows
  /\ last = NoReconcile
  /\ writes = <<>>
  /\ crashed = FALSE
  /\ ranAt = FALSE
  /\ nExternal = 0
  /\ nFaults = 0

InitLimit ==
  /\ DataIdle
  /\ limitCase \in LimitCases
  /\ limitResult = NoLimitResult
  /\ pureCase = NoPureCase
  /\ pureResult = NoPureResult
  /\ QueueIdle
  /\ ResolverIdle

RulesOf(c) == [stabilizationWindowSeconds |-> 0, selectPolicy |-> c.selectPolicy,
               policies |-> c.policies]

CallScaleUpLimit ==
  /\ limitResult = NoLimitResult
  /\ limitResult' = [direction |-> "up",
                     value |-> calculateScaleUpLimitWithScalingRules(
                                 limitCase.currentReplicas, limitCase.scaleEvents,
                                 RulesOf(limitCase), limitCase.now)]
  /\ UNCHANGED <<dataVars, crashed, limitCase, pureCase, pureResult, queueVars, cronVars>>

CallScaleDownLimit ==
  /\ limitResult = NoLimitResult
  /\ limitResult' = [direction |-> "down",
                     value |-> calculateScaleDownLimitWithBehaviors(
                                 limitCase.currentReplicas, limitCase.scaleEvents,
                                 RulesOf(limitCase), limitCase.now)]
  /\ UNCHANGED <<dataVars, crashed, limitCase, pureCase, pureResult, queueVars, cronVars>>

\* the rate conversion, called with a stabilized recommendation and the
\* bounds: the gates of reconcileAutoscaler have passed, so
\* MinReplicas <= CurrentReplicas <= MaxReplicas
CallConvertDesiredReplicasWithBehaviorRate ==
  /\ limitResult = NoLimitResult
  /\ pureResult = NoPureResult
  /\ \E args \in [ScaleUpBehavior : {RulesOf(limitCase)},
                   ScaleDownBehavior : {RulesOf(limitCase)},
                   MinReplicas : {1, limitCase.currentReplicas},
                   MaxReplicas : {limitCase.currentReplicas, MaxLimitReplicas + 2},
                   CurrentReplicas : {limitCase.currentReplicas},
                   DesiredReplicas : {1, 3, MaxLimitReplicas + 2}] :
       pureResult' = [fn |-> "convertDesiredReplicasWithBehaviorRate", args |-> args,
                      value |-> convertDesiredReplicasWithBehaviorRate(
                                  args, limitCase.scaleEvents, limitCase.scaleEvents,
                                  limitCase.now)]
  /\ UNCHANGED <<dataVars, crashed, limitCase, limitResult, pureCase, queueVars, cronVars>>

NextLimit ==
  \/ CallScaleUpLimit
  \/ CallScaleDownLimit
  \/ CallConvertDesiredReplicasWithBehaviorRate

SpecLimit == InitLimit /\ [][NextLimit]_vars

(* ================== the cron resolver as a pure function ================ *)
\* longest cronMetrics list of a resolver call
MaxCronEntries == 3

CronDefault == [schedule |-> "default", minReplicas |-> 4, maxReplicas |-> 6, priority |-> 0]

\* a default entry without minReplicas: validateCronMetric tests the lower
\* bound only when the pointer is set
CronDefaultNoMin ==
  [schedule |-> "default", minReplicas |-> Nil, maxReplicas |-> 6, priority |-> 0]

\* validateCronMetric: one or two default entries, two only with the same
\* bounds, which it compares through both minReplicas pointers
DefaultsAccepted(l) ==
  LET d == {i \in 1..Len(l) : l[i].schedule = "default"}
  IN  /\ Cardinality(d) \in {1, 2}
      /\ Cardinality(d) = 2 => \A i \in d : l[i] = CronDefault

\* non-default entries; the bounds tell the schedules apart
CronScheduled ==
  {[schedule |-> "s1", minReplicas |-> 1, maxReplicas |-> 3, priority |-> p] : p \in {-1, 0, 1}}
  \cup {[schedule |-> "s2", minReplicas |-> 2, maxReplicas |-> 5, priority |-> p] : p \in {-1, 0, 1}}

\* lists with a default entry, as the admission validator demands, and the
\* non-default entries whose window test passes
CronCases ==
  {[fn |-> "GetCurrentMaxAndMinReplicas", ranges |-> c[1], active |-> c[2]] :
     c \in UNION {{<<l, a>> : a \in SUBSET {i \in 1..Len(l) : l[i].schedule # "default"}} :
                  l \in {x \in UNION {[1..n -> CronScheduled
                                                  \cup {CronDefault, CronDefaultNoMin}] :
                                        n \in 1..MaxCronEntries} :
                           DefaultsAccepted(x)}}}

(* ------------------------- the window test ---------------------------- *)
\* a small calendar: instants count half minutes from the start of FirstYear
TicksPerMinute == 2

MinutesPerHour == 2

HoursPerMonth == 1

MonthsPerYear == 2

HoursPerYear == HoursPerMonth * MonthsPerYear

FirstYear == 2023

NumYears == 2

TicksPerHour == TicksPerMinute * MinutesPerHour

TicksPerYear == TicksPerHour * HoursPerYear

Year(t) == FirstYear + (t \div TicksPerYear)

Minute(t) == (t \div TicksPerMinute) % MinutesPerHour

Month(t) == (t % TicksPerYear) \div (TicksPerHour * HoursPerMonth)

\* the minute of the year an instant lies in
MinuteOfYear(t) == (t % TicksPerYear) \div TicksPerMinute

\* a schedule is the list of its blank-separated tokens. The five standard
\* fields are one token, the set of the minutes of the year they match; a
\* second token is the year.
ParseStandardWithYear(schedule) ==
  IF Len(schedule) > 1
  THEN [year |-> schedule[Len(schedule)], sched |-> schedule[1]]
  ELSE [year |-> 0, sched |-> schedule[1]]

\* cron.Schedule.Next: the first matching start of a minute after t
SchedNext(sched, t) ==
  CHOOSE n \in (t + 1)..(t + TicksPerYear + TicksPerMinute) :
    /\ n % TicksPerMinute = 0
    /\ MinuteOfYear(n) \in sched
    /\ \A k \in (t + 1)..(n - 1) : ~(k % TicksPerMinute = 0 /\ MinuteOfYear(k) \in sched)

\* the start of the hour an hour before the wall clock
getYesterdayFirstTime(wall) == ((wall - TicksPerHour) \div TicksPerHour) * TicksPerHour

RECURSIVE MatchLoop(_, _, _, _)
MatchLoop(sched, theNow, t, misMatch) ==
  IF t <= theNow THEN MatchLoop(sched, theNow, SchedNext(sched, t), t)
  ELSE [misMatch |-> misMatch, match |-> t]

NoMatch == [misMatch |-> Nil, match |-> Nil]

\* the walk from initTime and the test of the window around now
MatchWindow(sched, theNow, wall) ==
  LET initTime == getYesterdayFirstTime(wall)
      m == MatchLoop(sched, theNow, initTime, initTime)
  IN  IF /\ theNow - m.misMatch <= TicksPerMinute
         /\ theNow >= m.misMatch
         /\ (m.match - theNow <= TicksPerMinute \/ Minute(m.misMatch) = Minute(theNow))
      THEN m
      ELSE NoMatch

\* the window test without the guard on the year
getFinalMatchAndMisMatchAnyYear(schedule, theNow, wall) ==
  MatchWindow(ParseStandardWithYear(schedule).sched, theNow, wall)

\* theNow is the instant the scaler holds (s.now), wall the process clock
\* that getYesterdayFirstTime reads when the schedule is walked
getFinalMatchAndMisMatch(schedule, theNow, wall) ==
  LET parsed == ParseStandardWithYear(schedule)
  IN  IF parsed.year # 0 /\ parsed.year # Year(theNow)
      THEN NoMatch
      ELSE MatchWindow(parsed.sched, theNow, wall)

\* schedules that fire in one or two minutes of the year, with and without a
\* year
WindowSchedules ==
  LET minutes == 0..(MinutesPerHour * HoursPerYear - 1)
      fields == {{m1, m2} : m1 \in minutes, m2 \in minutes}
  IN  {<<f>> : f \in fields}
      \cup {<<f, y>> : f \in fields, y \in FirstYear..(FirstYear + NumYears - 1)}

\* wall is the process clock at the walk: the instant the scaler was built
\* at (NewCronMetricsScaler stores time.Now()), a moment later, or a year
\* later (a scaler built around a fixed instant)
WindowCases ==
  UNION {{[fn |-> "getFinalMatchAndMisMatch", schedule |-> sc, now |-> t, wall |-> w] :
            sc \in WindowSchedules, w \in {t, t + 1, t + TicksPerYear}} :
         t \in TicksPerHour..(NumYears * TicksPerYear - 1)}

\* the variables no pure-function call touches
PureFrame ==
  /\ DataIdle
  /\ limitCase = NoLimitCase
  /\ limitResult = NoLimitResult
  /\ QueueIdle

InitCron ==
  /\ PureFrame
  /\ ResolverIdle
  /\ pureCase \in CronCases \cup WindowCases
  /\ pureResult = NoPureResult

CallGetCurrentMaxAndMinReplicas ==
  /\ pureCase.fn = "GetCurrentMaxAndMinReplicas"
  /\ pureResult = NoPureResult
  /\ pureResult' = [fn |-> "GetCurrentMaxAndMinReplicas",
                    value |-> GetCurrentMaxAndMinReplicas(pureCase.ranges, pureCase.active)]
  /\ UNCHANGED <<dataVars, crashed, limitCase, limitResult, pureCase, queueVars, cronVars>>

CallGetFinalMatchAndMisMatch ==
  /\ pureCase.fn = "getFinalMatchAndMisMatch"
  /\ pureResult = NoPureResult
  /\ pureResult' = [fn |-> "getFinalMatchAndMisMatch",
                    value |-> getFinalMatchAndMisMatch(pureCase.schedule, pureCase.now,
                                                       pureCase.wall)]
  /\ UNCHANGED <<dataVars, crashed, limitCase, limitResult, pureCase, queueVars, cronVars>>

NextCron ==
  \/ CallGetCurrentMaxAndMinReplicas
  \/ CallGetFinalMatchAndMisMatch

SpecCron == InitCron /\ [][NextCron]_vars

(* ------------- workers resolving cron windows side by side -------------- *)
\* the cron metrics of the GPA worker w reconciles: a default entry and one
\* scheduled entry; neighbouring GPAs carry different schedules
ResolveRanges(w) ==
  <<CronDefault,
    IF w % 2 = 1
    THEN [schedule |-> "s1", minReplicas |-> 1, maxReplicas |-> 3, priority |-> 0]
    ELSE [schedule |-> "s2", minReplicas |-> 2, maxReplicas |-> 5, priority |-> 0]>>

InitResolve ==
  /\ PureFrame
  /\ pureCase = NoPureCase
  /\ pureResult = NoPureResult
  /\ recordCronMetricsScheduleName = ""
  /\ resolver = [w \in Workers |-> [IdleResolver EXCEPT !.pc = "Start"]]

\* GetCurrentMaxAndMinReplicas up to the loop over the ranges: the bounds of
\* the default entry are taken and its schedule is stored in the package
\* variable; active are the entries whose window test will pass
ResolveDefault(w) ==
  /\ resolver[w].pc = "Start"
  /\ \E active \in SUBSET {i \in 1..Len(ResolveRanges(w)) :
                             ResolveRanges(w)[i].schedule # "default"} :
       LET defaultSet == DefaultSetLoop(ResolveRanges(w), 1, ZeroCronMetricSpec)
       IN  /\ resolver' = [resolver EXCEPT ![w] =
                            [pc |-> "Loop", active |-> active, max |-> defaultSet.maxReplicas,
                             min |-> defaultSet.minReplicas, returned |-> FALSE,
                             scheduleName |-> resolver[w].scheduleName]]
           /\ recordCronMetricsScheduleName' = defaultSet.schedule
  /\ UNCHANGED <<dataVars, crashed, limitVars, queueVars>>

\* the loop and the choice of the entry of highest priority: its bounds are
\* taken and its schedule is stored in the package variable; with no active
\* entry the function goes on to return
ResolveChoose(w) ==
  /\ resolver[w].pc = "Loop"
  /\ LET acc == MaxPriorityLoop(ResolveRanges(w), 1, resolver[w].active,
                                [maxPriority |-> 0, maxCr |-> ZeroCronMetricSpec])
     IN  IF resolver[w].active = {}
         THEN /\ resolver' = [resolver EXCEPT ![w].pc = "Return"]
              /\ UNCHANGED recordCronMetricsScheduleName
         ELSE /\ resolver' = [resolver EXCEPT ![w].pc = "Return",
                                              ![w].max = acc.maxCr.maxReplicas,
                                              ![w].min = acc.maxCr.minReplicas]
              /\ recordCronMetricsScheduleName' = acc.maxCr.schedule
  /\ UNCHANGED <<dataVars, crashed, limitVars, queueVars>>

\* return max, min, recordCronMetricsScheduleName: the package variable is
\* read when the function returns; the worker then starts its next reconcile
ResolveReturn(w) ==
  /\ resolver[w].pc = "Return"
  /\ resolver' = [resolver EXCEPT ![w].pc = "Start", ![w].returned = TRUE,
                                  ![w].scheduleName = recordCronMetricsScheduleName]
  /\ UNCHANGED <<dataVars, crashed, limitVars, queueVars, recordCronMetricsScheduleName>>

NextResolve ==
  \E w \in Workers :
    \/ ResolveDefault(w)
    \/ ResolveChoose(w)
    \/ ResolveReturn(w)

SpecResolve == InitResolve /\ [][NextResolve]_vars

(* ================= the admission validator's functions ================== *)
\* the firing instants of a year-bound schedule: from the day and time of
\* start in that year up to and including the first one of a later year
RECURSIVE CycleLoop(_, _, _, _)
CycleLoop(sched, year, next, schSet) ==
  LET n == SchedNext(sched, next)
  IN  IF Year(n) # year THEN schSet \cup {n}
      ELSE CycleLoop(sched, year, n, schSet \cup {n})

\* the firing instants of a year-agnostic schedule: from start up to and
\* including the first one of another month
RECURSIVE CustomLoop(_, _, _, _)
CustomLoop(sched, start, next, schSet) ==
  LET n == SchedNext(sched, next)
  IN  IF Month(n) # Month(start) THEN schSet \cup {n}
      ELSE CustomLoop(sched, start, n, schSet \cup {n})

\* the loop over a year-agnostic schedule has no exit when the schedule
\* fires in the month of start only
CustomLoopDiverges(sched, start) ==
  \A m \in sched : Month(m * TicksPerMinute) = Month(start)

\* the CronSet of a non-default entry
CronSetOf(cronRange, start) ==
  LET parsed == ParseStandardWithYear(cronRange.schedule)
  IN  [schedule |-> cronRange.schedule,
       Type |-> cronRange.resource,
       Priority |-> cronRange.priority,
       bound |-> parsed.year # 0,
       set |-> IF parsed.year # 0
               THEN CycleLoop(parsed.sched, parsed.year,
                              (parsed.year - FirstYear) * TicksPerYear + (start % TicksPerYear),
                              {})
               ELSE IF CustomLoopDiverges(parsed.sched, start) THEN {}
               \* the instants are kept with the year replaced by 0
               ELSE {MinuteOfYear(n) : n \in CustomLoop(parsed.sched, start, start, {})}]

\* at least one error is appended; the break only ends the reports about i
checkConflict(setSlice) ==
  \E i \in 1..Len(setSlice) : \E j \in (i + 1)..Len(setSlice) :
    /\ ~(setSlice[i].Type # setSlice[j].Type /\ setSlice[i].schedule = setSlice[j].schedule)
    /\ setSlice[i].set \cap setSlice[j].set # {}
    /\ setSlice[i].Priority = setSlice[j].Priority

RECURSIVE SelectSets(_, _)
SelectSets(sets, bound) ==
  IF sets = <<>> THEN <<>>
  ELSE IF sets[1].bound = bound THEN <<sets[1]>> \o SelectSets(Tail(sets), bound)
       ELSE SelectSets(Tail(sets), bound)

\* the conflict verdict of validateCronMetric on the non-default entries
validateCronMetric(cronMetrics, start) ==
  LET sets == [i \in 1..Len(cronMetrics) |-> CronSetOf(cronMetrics[i], start)]
      hangs == \E i \in 1..Len(cronMetrics) :
                 LET parsed == ParseStandardWithYear(cronMetrics[i].schedule)
                 IN  parsed.year = 0 /\ CustomLoopDiverges(parsed.sched, start)
  IN  IF hangs THEN [diverges |-> TRUE, conflict |-> FALSE]
      ELSE [diverges |-> FALSE,
            conflict |-> checkConflict(SelectSets(sets, TRUE))
                         \/ checkConflict(SelectSets(sets, FALSE))]

\* the schedules of the validated entries
ValidatedSchedules ==
  LET fields == {{0}, {0, 2}, {0, 3}, {3}}
  IN  {<<f>> : f \in fields}
      \cup {<<f, y>> : f \in fields, y \in FirstYear..(FirstYear + NumYears - 1)}

ValidatedEntries ==
  {[schedule |-> sc, priority |-> p, resource |-> r] :
     sc \in ValidatedSchedules, p \in {0, 1}, r \in {"cpu", "memory"}}

\* two non-default entries beside the default one, and the wall clock
CronMetricCases ==
  {[fn |-> "validateCronMetric", cronMetrics |-> <<e1, e2>>, start |-> t] :
     e1 \in ValidatedEntries, e2 \in ValidatedEntries, t \in 0..(TicksPerYear - 1)}

(* -------------------------- validateMetricSpec -------------------------- *)
validMetricSourceTypes == {"Object", "Pods", "Resource", "ContainerResource", "External"}

\* the source field the switch on spec.Type expects
ExpectedField(type) ==
  CASE type = "Object" -> "object"
    [] type = "Pods" -> "pods"
    [] type = "Resource" -> "resource"
    [] type = "ContainerResource" -> "containerResource"
    [] type = "External" -> "external"
    [] OTHER -> ""

\* the fields entered into typesPresent, in the order of the tests
PresenceTests == <<"object", "external", "pods", "resource">>

\* typesPresent after the first n tests
TypesPresent(spec, n) == {PresenceTests[k] : k \in {i \in 1..n : PresenceTests[i] \in spec.populated}}

\* spec.populated: the source fields that are not nil; spec.invalid: those
\* of them whose own validation reports an error.  The result is the set of
\* the errors appended.
validateMetricSpec(spec) ==
  LET typesPresent == TypesPresent(spec, Len(PresenceTests))
      expectedField == ExpectedField(spec.type)
  IN  (IF spec.type = "" THEN {"type: required"} ELSE {})
      \cup (IF spec.type \notin validMetricSourceTypes THEN {"type: not supported"} ELSE {})
      \* a source is validated only when it is the first one present
      \cup {PresenceTests[k] \o ": invalid" :
              k \in {i \in 1..Len(PresenceTests) :
                       /\ PresenceTests[i] \in spec.populated
                       /\ Cardinality(TypesPresent(spec, i)) = 1
                       /\ PresenceTests[i] \in spec.invalid}}
      \cup (IF expectedField # "" /\ expectedField \notin spec.populated
            THEN {expectedField \o ": required"} ELSE {})
      \cup (IF Cardinality(typesPresent) # 1
            THEN {typ \o ": forbidden" : typ \in typesPresent \ {expectedField}}
            ELSE {})

SourceFields == {"object", "pods", "resource", "containerResource", "external"}

MetricSpecCases ==
  {[fn |-> "validateMetricSpec",
    spec |-> [type |-> ty, populated |-> c[1], invalid |-> c[2]]] :
     ty \in validMetricSourceTypes \cup {"", "Unknown"},
     c \in UNION {{<<pop, inv>> : inv \in SUBSET pop} : pop \in SUBSET SourceFields}}

CallValidateMetricSpec ==
  /\ pureCase.fn = "validateMetricSpec"
  /\ pureResult = NoPureResult
  /\ pureResult' = [fn |-> "validateMetricSpec", value |-> validateMetricSpec(pureCase.spec)]
  /\ UNCHANGED <<dataVars, crashed, limitCase, limitResult, pureCase, queueVars, cronVars>>

InitValidate ==
  /\ PureFrame
  /\ ResolverIdle
  /\ pureCase \in CronMetricCases \cup MetricSpecCases
  /\ pureResult = NoPureResult

CallValidateCronMetric ==
  /\ pureCase.fn = "validateCronMetric"
  /\ pureResult = NoPureResult
  /\ pureResult' = [fn |-> "validateCronMetric",
                    value |-> validateCronMetric(pureCase.cronMetrics, pureCase.start)]
  /\ UNCHANGED <<dataVars, crashed, limitCase, limitResult, pureCase, queueVars, cronVars>>

NextValidate ==
  \/ CallValidateCronMetric
  \/ CallValidateMetricSpec

SpecValidate == InitValidate /\ [][NextValidate]_vars

(* ================= the worker pool and the work queue =================== *)
\* the keys of two GPAs: one without spec.behavior, one with it
QueueKeys == {"ns/legacy", "ns/behavior"}

HasBehavior(key) == key = "ns/behavior"

InitQueue ==
  /\ DataIdle
  /\ limitCase = NoLimitCase
  /\ limitResult = NoLimitResult
  /\ pureCase = NoPureCase
  /\ pureResult = NoPureResult
  /\ lister = QueueKeys
  /\ wq = [EmptyQueue EXCEPT !.waiting = QueueKeys]
  /\ worker = [w \in Workers |-> IdleWorker]
  /\ mutex = [m \in Maps |-> 0]
  /\ windows = [m \in Maps |-> {}]
  /\ ResolverIdle

\* queue.Add: dropped while the queue shuts down; a key already marked dirty
\* is dropped; a key being processed is only marked dirty; otherwise the key
\* joins the queue
Add(q, key) ==
  IF q.shuttingDown THEN q
  ELSE IF key \in q.dirty THEN q
  ELSE IF key \in q.processing THEN [q EXCEPT !.dirty = @ \cup {key}]
       ELSE [q EXCEPT !.dirty = @ \cup {key}, !.queue = Append(@, key)]

\* queue.AddRateLimited: the key waits for the rate limiter's delay, unless
\* the queue shuts down
AddRateLimited(q, key) ==
  IF q.shuttingDown THEN q ELSE [q EXCEPT !.waiting = @ \cup {key}]

\* queue.Get hands out the head of the queue
Get(q) == [q EXCEPT !.queue = Tail(@), !.processing = @ \cup {Head(q.queue)},
                    !.dirty = @ \ {Head(q.queue)}]

\* queue.Done: a key marked dirty while it was processed joins the queue
Done(q, key) ==
  IF key \in q.dirty /\ key \in q.processing
  THEN [q EXCEPT !.processing = @ \ {key}, !.queue = Append(@, key)]
  ELSE [q EXCEPT !.processing = @ \ {key}]

processNextWorkItemDoneFirst ==
  [Get |-> "Done", Done |-> "reconcileKey", reconcileKey |-> "AddRateLimited",
   AddRateLimited |-> "Get"]

\* the order of the calls of processNextWorkItem: Done is deferred
processNextWorkItem ==
  [Get |-> "reconcileKey", reconcileKey |-> "AddRateLimited", AddRateLimited |-> "Done",
   Done |-> "Get"]

\* the statements of a reconcile that touch a controller-wide map: the map,
\* whether the statement takes the map's mutex, whether it writes the map
MapAccess ==
  [recordInitialRecommendation |->
     [map |-> "recommendations", locks |-> TRUE, writes |-> TRUE],
   stabilizeRecommendation |->
     [map |-> "recommendations", locks |-> TRUE, writes |-> TRUE],
   stabilizeRecommendationWithBehaviors |->
     [map |-> "recommendations", locks |-> FALSE, writes |-> TRUE],
   convertDesiredReplicasWithBehaviorRateUp |->
     [map |-> "scaleUpEvents", locks |-> TRUE, writes |-> FALSE],
   convertDesiredReplicasWithBehaviorRateDown |->
     [map |-> "scaleDownEvents", locks |-> TRUE, writes |-> FALSE],
   storeScaleEventUp |->
     [map |-> "scaleUpEvents", locks |-> TRUE, writes |-> TRUE],
   storeScaleEventDown |->
     [map |-> "scaleDownEvents", locks |-> TRUE, writes |-> TRUE],
   deleteRecommendations |->
     [map |-> "recommendations", locks |-> FALSE, writes |-> TRUE],
   deleteScaleUpEvents |->
     [map |-> "scaleUpEvents", locks |-> FALSE, writes |-> TRUE],
   deleteScaleDownEvents |->
     [map |-> "scaleDownEvents", locks |-> FALSE, writes |-> TRUE]]

Statements == DOMAIN MapAccess

\* the statements that can follow a statement in reconcileKey; "return"
\* leaves reconcileKey
Following(stmt, key) ==
  CASE stmt = "recordInitialRecommendation" ->
         IF HasBehavior(key)
         THEN {"stabilizeRecommendationWithBehaviors", "storeScaleEventUp", "storeScaleEventDown",
               "return"}
         ELSE {"stabilizeRecommendation", "return"}
    [] stmt = "stabilizeRecommendation" -> {"return"}
    [] stmt = "stabilizeRecommendationWithBehaviors" ->
         {"convertDesiredReplicasWithBehaviorRateUp", "convertDesiredReplicasWithBehaviorRateDown",
          "return"}
    [] stmt = "convertDesiredReplicasWithBehaviorRateUp" -> {"storeScaleEventUp", "return"}
    [] stmt = "convertDesiredReplicasWithBehaviorRateDown" -> {"storeScaleEventDown", "return"}
    [] stmt \in {"storeScaleEventUp", "storeScaleEventDown"} -> {"return"}
    [] stmt = "deleteRecommendations" -> {"deleteScaleUpEvents"}
    [] stmt = "deleteScaleUpEvents" -> {"deleteScaleDownEvents"}
    [] stmt = "deleteScaleDownEvents" -> {"return"}

\* enqueueGPA: an add, update or resync event of a GPA in the cache
EnqueueGPA(key) ==
  /\ key \in lister
  /\ key \notin wq.waiting
  /\ wq' = AddRateLimited(wq, key)
  /\ UNCHANGED <<dataVars, crashed, limitVars, lister, worker, mutex, windows, cronVars>>

\* the rate limiter's delay of a key is over
DelayElapsed(key) ==
  /\ key \in wq.waiting
  /\ wq' = Add([wq EXCEPT !.waiting = @ \ {key}], key)
  /\ UNCHANGED <<dataVars, crashed, limitVars, lister, worker, mutex, windows, cronVars>>

\* the GPA leaves the cache; deleteGPA only resets the key's rate limiter
DeleteGPA(key) ==
  /\ key \in lister
  /\ lister' = lister \ {key}
  /\ UNCHANGED <<dataVars, crashed, limitVars, wq, worker, mutex, windows, cronVars>>

WorkerGet(w) ==
  /\ ~crashed
  /\ worker[w].pc = "Get"
  /\ wq.queue # <<>>
  /\ wq' = Get(wq)
  /\ worker' = [worker EXCEPT ![w] = [pc |-> processNextWorkItem.Get, key |-> Head(wq.queue),
                                      deleted |-> FALSE, acc |-> "", wrote |-> FALSE]]
  /\ UNCHANGED <<dataVars, crashed, limitVars, lister, mutex, windows, cronVars>>

\* reconcileKey asks the lister for the GPA
LookupKey(w) ==
  /\ ~crashed
  /\ worker[w].pc = "reconcileKey"
  /\ worker' = [worker EXCEPT ![w].pc = IF worker[w].key \in lister
                                       THEN "recordInitialRecommendation"
                                       ELSE "deleteRecommendations",
                              ![w].deleted = worker[w].key \notin lister]
  /\ UNCHANGED <<dataVars, crashed, limitVars, lister, wq, mutex, windows, cronVars>>

\* the worker starts the map access of its statement, after Lock() if the
\* statement takes the mutex
EnterAccess(w) ==
  /\ ~crashed
  /\ worker[w].pc \in Statements
  /\ worker[w].acc = ""
  /\ LET a == MapAccess[worker[w].pc]
     IN  /\ a.locks => mutex[a.map] = 0
         /\ mutex' = IF a.locks THEN [mutex EXCEPT ![a.map] = w] ELSE mutex
         /\ worker' = [worker EXCEPT ![w].acc = a.map]
  /\ UNCHANGED <<dataVars, crashed, limitVars, lister, wq, windows, cronVars>>

\* two workers are inside accesses of the same map and one of them writes it
DataRace ==
  \E w1, w2 \in Workers :
    /\ w1 # w2
    /\ worker[w1].acc # ""
    /\ worker[w1].acc = worker[w2].acc
    /\ MapAccess[worker[w1].pc].writes \/ MapAccess[worker[w2].pc].writes

\* what a statement does to the key set of its map: a delete removes the
\* key, an assignment to a.<map>[key] makes the key present, a read changes
\* nothing
MapEffect(stmt, key, keys) ==
  IF stmt \in {"deleteRecommendations", "deleteScaleUpEvents", "deleteScaleDownEvents"}
  THEN keys \ {key}
  ELSE IF MapAccess[stmt].writes THEN keys \cup {key} ELSE keys

\* the worker ends the map access, Unlock()s, and goes on; a write that
\* overlapped another access of the same map takes effect or is lost; a
\* reconcile of a GPA found in the cache may have written the scale or the
\* status by the time it returns
ExitAccess(w) ==
  /\ ~crashed
  /\ worker[w].pc \in Statements
  /\ worker[w].acc # ""
  /\ \E next \in Following(worker[w].pc, worker[w].key),
        wrote \in (IF worker[w].deleted THEN {FALSE} ELSE BOOLEAN) :
       worker' = [worker EXCEPT ![w].acc = "",
                                ![w].wrote = next = "return" /\ wrote,
                                ![w].pc = IF next = "return" THEN processNextWorkItem.reconcileKey
                                          ELSE next]
  /\ \E lost \in (IF DataRace /\ MapAccess[worker[w].pc].writes THEN BOOLEAN ELSE {FALSE}) :
       windows' = IF lost THEN windows
                  ELSE [windows EXCEPT ![worker[w].acc] =
                          MapEffect(worker[w].pc, worker[w].key, @)]
  /\ mutex' = [m \in Maps |-> IF mutex[m] = w THEN 0 ELSE mutex[m]]
  /\ UNCHANGED <<dataVars, crashed, limitVars, lister, wq, cronVars>>

\* if !deleted { a.queue.AddRateLimited(key) }
Requeue(w) ==
  /\ ~crashed
  /\ worker[w].pc = "AddRateLimited"
  /\ wq' = IF worker[w].deleted THEN wq ELSE AddRateLimited(wq, worker[w].key)
  /\ worker' = [worker EXCEPT ![w].pc = processNextWorkItem.AddRateLimited]
  /\ UNCHANGED <<dataVars, crashed, limitVars, lister, mutex, windows, cronVars>>

WorkerDone(w) ==
  /\ ~crashed
  /\ worker[w].pc = "Done"
  /\ wq' = Done(wq, worker[w].key)
  /\ worker' = [worker EXCEPT ![w].pc = processNextWorkItem.Done]
  /\ UNCHANGED <<dataVars, crashed, limitVars, lister, mutex, windows, cronVars>>

\* one outcome of a data race on a Go map: the runtime ends the process
\* ("fatal error: concurrent map writes"); the other outcome is to go on
RaceCrash ==
  /\ ~crashed
  /\ DataRace
  /\ crashed' = TRUE
  /\ UNCHANGED <<dataVars, limitVars, queueVars, cronVars>>

WorkerStep(w) ==
  \/ WorkerGet(w)
  \/ LookupKey(w)
  \/ EnterAccess(w)
  \/ ExitAccess(w)
  \/ Requeue(w)
  \/ WorkerDone(w)

NextQueue ==
  \/ \E key \in QueueKeys : EnqueueGPA(key)
  \/ \E key \in QueueKeys : DelayElapsed(key)
  \/ \E key \in QueueKeys : DeleteGPA(key)
  \/ \E w \in Workers : WorkerStep(w)
  \/ RaceCrash

SpecQueue == InitQueue /\ [][NextQueue]_vars

\* the Go scheduler runs every runnable goroutine, a mutex is handed to a
\* waiter, and every delay of the rate limiter ends
SpecQueueFair ==
  /\ SpecQueue
  /\ \A w \in Workers : SF_vars(WorkerStep(w))
  /\ \A key \in QueueKeys : WF_vars(DelayElapsed(key))

(* ------------------------------ shutdown -------------------------------- *)
\* Run: the stop channel is closed, the deferred queue.ShutDown runs and
\* Run returns
RunStop ==
  /\ ~crashed
  /\ ~wq.shuttingDown
  /\ wq' = [wq EXCEPT !.shuttingDown = TRUE]
  /\ UNCHANGED <<dataVars, crashed, limitVars, lister, worker, mutex, windows, cronVars>>

\* queue.Get reports quit once the queue shuts down and is empty:
\* processNextWorkItem returns false, worker returns, and wait.Until, whose
\* stop channel is closed, does not call it again
WorkerQuit(w) ==
  /\ ~crashed
  /\ worker[w].pc = "Get"
  /\ wq.queue = <<>>
  /\ wq.shuttingDown
  /\ worker' = [worker EXCEPT ![w].pc = "Exited"]
  /\ UNCHANGED <<dataVars, crashed, limitVars, lister, wq, mutex, windows, cronVars>>

\* the run of the controller up to and after the stop signal, for GPAs that
\* stay in the cache
NextStop ==
  \/ \E key \in QueueKeys : EnqueueGPA(key)
  \/ \E key \in QueueKeys : DelayElapsed(key)
  \/ \E w \in Workers : WorkerStep(w)
  \/ RaceCrash
  \/ RunStop
  \/ \E w \in Workers : WorkerQuit(w)

SpecStop == InitQueue /\ [][NextStop]_vars

SpecStopFair ==
  /\ SpecStop
  /\ \A w \in Workers : SF_vars(WorkerStep(w) \/ WorkerQuit(w))
  /\ \A key \in QueueKeys : WF_vars(DelayElapsed(key))

(* ============================ properties ================================ *)
NormalizerRan == last.obs.path \in {"legacy", "behavior"}

CronMins == {CronEntries[i].minReplicas : i \in 1..Len(CronEntries)}

CronMaxs == {CronEntries[i].maxReplicas : i \in 1..Len(CronEntries)}

\* C1: in every reconcile that runs the legacy or the behavior normalizer the
\* normalized desired count lies between the effective minReplicas (1 when
\* spec.minReplicas is unset, a cron entry's bound under CronMetricMode) and
\* the effective maxReplicas.
DesiredWithinBounds ==
  NormalizerRan =>
    /\ last.obs.minReplicas <= last.obs.desired
    /\ last.obs.desired <= last.obs.maxReplicas
    /\ IF apiSpec.mode = "cron"
       THEN last.obs.minReplicas \in CronMins /\ last.obs.maxReplicas \in CronMaxs
       ELSE /\ last.obs.minReplicas = (IF apiSpec.minReplicas = Nil THEN 1 ELSE apiSpec.minReplicas)
            /\ last.obs.maxReplicas = apiSpec.maxReplicas

\* the legacy normalizer raised a stabilized recommendation of 0 to the
\* default minimum of a GPA without spec.minReplicas
ClampedToDefaultMin ==
  /\ last.obs.path = "legacy"
  /\ apiSpec.minReplicas = Nil
  /\ apiSpec.mode = "metric"
  /\ last.obs.stabilized = 0
  /\ last.obs.desired = 1

\* C2: no reconcile calls the scale Update with 0 replicas; a reconcile whose
\* normalized desired count is 0 while the target has replicas makes no scale
\* Update call, records a FailedRescale event and returns an error.
NeverWritesZero ==
  /\ last.scaleCall # 0
  /\ (NormalizerRan /\ last.obs.desired = 0 /\ last.obs.currentReplicas # 0)
       => /\ last.scaleCall = Nil
          /\ "FailedRescale" \in last.events
          /\ last.err

RefusedZero ==
  /\ NormalizerRan
  /\ last.obs.desired = 0
  /\ last.obs.currentReplicas > 0
  /\ last.scaleCall = Nil
  /\ last.err

\* C3: every scale Update call carries a count different from the replicas
\* read at the start of the reconcile, and a reconcile whose normalized
\* desired count equals the current count makes no scale Update call.
WritesOnlyChanges ==
  /\ last.scaleCall # Nil => last.scaleCall # last.obs.currentReplicas
  /\ (NormalizerRan /\ last.obs.desired = last.obs.currentReplicas) => last.scaleCall = Nil

\* the metrics asked for another count, the normalizer brought it back to
\* the current one, and nothing was written
NoWriteWhenUnchanged ==
  /\ NormalizerRan
  /\ last.obs.preDesired # last.obs.currentReplicas
  /\ last.obs.desired = last.obs.currentReplicas
  /\ last.scaleCall = Nil
  /\ ~last.err

RECURSIVE SumWrites(_, _, _, _)
SumWrites(ws, i, cutoff, sign) ==
  IF i > Len(ws) THEN 0
  ELSE (IF ws[i].timestamp > cutoff /\ ws[i].change * sign > 0 THEN ws[i].change * sign ELSE 0)
       + SumWrites(ws, i + 1, cutoff, sign)

\* C4: under a behavior with one Pods policy {value, periodSeconds} per
\* direction, the replicas added (removed) by all scale writes of the last
\* periodSeconds seconds never exceed value, gate writes included.
RateLimitCoversEveryWrite ==
  apiSpec.behaviorSet =>
    /\ SumWrites(writes, 1, now - apiSpec.scaleUp.policies[1].periodSeconds, 1)
         <= apiSpec.scaleUp.policies[1].value
    /\ SumWrites(writes, 1, now - apiSpec.scaleDown.policies[1].periodSeconds, -1)
         <= apiSpec.scaleDown.policies[1].value

SetMax(S) == CHOOSE x \in S : \A y \in S : y <= x

SetMin(S) == CHOOSE x \in S : \A y \in S : x <= y

PolicyProposals(c, direction) ==
  {IF direction = "up"
   THEN ScaleUpProposal(c.policies[i], c.currentReplicas, c.scaleEvents, c.now)
   ELSE ScaleDownProposal(c.policies[i], c.currentReplicas, c.scaleEvents, c.now)
     : i \in 1..Len(c.policies)}

\* C5: the limit of a direction is, with selectPolicy Max, the most permissive
\* per-policy proposal (largest for scale-up, smallest for scale-down), with
\* Min the least permissive one (smallest for scale-up, largest for
\* scale-down), and with Disabled the current replica count.
LimitFollowsSelectPolicy ==
  limitResult # NoLimitResult =>
    LET proposals == PolicyProposals(limitCase, limitResult.direction)
        up == limitResult.direction = "up"
    IN  limitResult.value =
          IF limitCase.selectPolicy = "Disabled" THEN limitCase.currentReplicas
          ELSE IF (limitCase.selectPolicy = "Max") = up THEN SetMax(proposals)
               ELSE SetMin(proposals)

RecsSince(recs, cutoff, strict) ==
  {recs[i].recommendation : i \in {j \in 1..Len(recs) :
       IF strict THEN recs[j].timestamp > cutoff ELSE recs[j].timestamp >= cutoff}}

\* C6: on the legacy path the stabilized recommendation is the largest of
\* preDesired and the recommendations of the key not older than
\* now - downscaleStabilisationWindow, and the desired count is that value
\* unless the [min, max] clamp or the scale-up cap max(2 x current, 4) cuts it.
\* With recommendations 18 (30 s ago) and 12 (10 s ago), preDesired 10, a
\* window of 60 s and bounds [5, 20] the result is 18.
LegacyStabilizedIsWindowMax ==
  /\ last.obs.path = "legacy" =>
       LET inWindow == RecsSince(last.recsBefore, last.at - downscaleStabilisationWindow, FALSE)
           cap == SetMax({2 * last.obs.currentReplicas, 4})
           top == SetMin({cap, last.obs.maxReplicas})
       IN  /\ last.obs.stabilized = SetMax({last.obs.preDesired} \cup inWindow)
           /\ (last.obs.minReplicas <= last.obs.stabilized /\ last.obs.stabilized <= top)
                => last.obs.desired = last.obs.stabilized
           /\ last.obs.stabilized > top => last.obs.desired = top
  /\ LET ex == stabilizeRecommendation(<<[recommendation |-> 18, timestamp |-> -30],
                                         [recommendation |-> 12, timestamp |-> -10]>>, 10, 0, 60)
     IN  /\ ex.value = 18
         /\ \A cur \in 9..20 : convertDesiredReplicasWithRules(cur, ex.value, 5, 20).replicas = 18

\* a recommendation older than the window was left out and a newer, higher
\* one held the desired count above preDesired
HeldByRecentRecommendation ==
  /\ last.obs.path = "legacy"
  /\ \E i \in 1..Len(last.recsBefore) :
        /\ last.recsBefore[i].timestamp < last.at - downscaleStabilisationWindow
        /\ last.recsBefore[i].recommendation > last.obs.stabilized
  /\ last.obs.stabilized > last.obs.preDesired
  /\ last.obs.desired = last.obs.stabilized

UpWindow == RecsSince(last.recsBefore, last.at - apiSpec.scaleUp.stabilizationWindowSeconds, TRUE)

\* C7: on the behavior path a scale write that raises the replica count
\* never exceeds preDesired or any recommendation newer than
\* now - scaleUp.stabilizationWindowSeconds.
ScaleUpBoundedByUpWindow ==
  (last.obs.path = "behavior" /\ last.scaleCall # Nil /\ last.scaleCall > last.obs.currentReplicas)
     => last.scaleCall <= SetMin({last.obs.preDesired} \cup UpWindow)

Reconciling(w) == worker[w].pc = "reconcileKey" \/ worker[w].pc \in Statements

\* C8: no two workers are inside reconcileKey for the same key, also after
\* the key was added again while its reconcile was in flight.
SingleFlight ==
  \A w1, w2 \in Workers :
    (w1 # w2 /\ Reconciling(w1) /\ Reconciling(w2)) => worker[w1].key # worker[w2].key

\* a key was added again while a worker reconciles it; the queue parks it
\* (dirty, not queued) although another worker waits in Get
ParkedWhileInFlight ==
  \E w1, w2 \in Workers :
    /\ w1 # w2
    /\ Reconciling(w1)
    /\ worker[w1].key \in wq.dirty
    /\ worker[w1].key \in wq.processing
    /\ worker[w2].pc = "Get"
    /\ wq.queue = <<>>

\* C9: a worker inside an access of recommendations, scaleUpEvents or
\* scaleDownEvents holds the mutex of that map.
EveryMapAccessHoldsItsMutex ==
  \A w \in Workers : worker[w].acc # "" => mutex[worker[w].acc] = w

\* C10: every GPA that stays in the cache is reconciled again and again:
\* reconcileKey returns for its key infinitely often.
ExistingGPAReconciledForever ==
  \A key \in QueueKeys :
    <>(key \notin lister)
      \/ []<>(\E w \in Workers : worker[w].key = key /\ worker[w].pc = "AddRateLimited")

DeleteStatements == {"deleteRecommendations", "deleteScaleUpEvents", "deleteScaleDownEvents"}

\* worker w completes one of the three deletes of reconcileKey
PurgeStepOf(w) ==
  /\ worker[w].pc \in DeleteStatements
  /\ worker[w].acc # ""
  /\ worker'[w].acc = ""

\* C11: the reconcile of a key that is not in the informer cache removes the
\* key's entry from each of the three maps and changes nothing else in them,
\* returns deleted = true, and writes neither the scale nor the status
PurgeRemovesOnlyTheKey ==
  [][\A w \in Workers :
       PurgeStepOf(w) =>
         /\ windows' = [windows EXCEPT ![worker[w].acc] = @ \ {worker[w].key}]
         /\ worker'[w].deleted
         /\ ~worker'[w].wrote]_vars

\* the key has no entry in any of the three maps
Purged(key) == \A m \in Maps : key \notin windows[m]

\* the key is neither waiting for its delay, nor in the queue, nor marked
\* dirty, nor being processed
Retired(key) ==
  /\ key \notin wq.waiting
  /\ key \notin wq.dirty
  /\ key \notin wq.processing
  /\ \A i \in 1..Len(wq.queue) : wq.queue[i] # key

\* C12: once a GPA has left the informer cache, its key is reconciled again,
\* its entries in the three maps are purged, and from some reconcile on the
\* key never enters the queue again
DeletedKeyPurgedAndRetired ==
  \A key \in QueueKeys : [](key \notin lister => <>[](Purged(key) /\ Retired(key)))

\* the comparisons of a window entry's timestamp with the cutoffs of the
\* horizons h give the same answers at t1 and at t2: before holds the
\* horizons compared with Before(cutoff), after those compared with
\* After(cutoff)
SameSide(entries, before, after, t1, t2) ==
  \A i \in 1..Len(entries) :
    /\ \A h \in before : (entries[i].timestamp < t1 - h) <=> (entries[i].timestamp < t2 - h)
    /\ \A h \in after : (entries[i].timestamp > t1 - h) <=> (entries[i].timestamp > t2 - h)

Periods(scalingRules) ==
  {scalingRules.policies[i].periodSeconds : i \in 1..Len(scalingRules.policies)}

\* no entry of the key's windows expires between t1 and t2
NoExpiry(spec, w, t1, t2) ==
  IF ~spec.behaviorSet
  THEN SameSide(w.recs, {downscaleStabilisationWindow}, {}, t1, t2)
  ELSE LET upDelay   == spec.scaleUp.stabilizationWindowSeconds
           downDelay == IF spec.scaleDown.stabilizationWindowSeconds = Nil
                        THEN downscaleStabilisationWindow
                        ELSE spec.scaleDown.stabilizationWindowSeconds
       IN  /\ SameSide(w.recs, {max(upDelay, downDelay)}, {upDelay, downDelay}, t1, t2)
           /\ SameSide(w.up, {getLongestPolicyPeriod(spec.scaleUp)}, Periods(spec.scaleUp), t1, t2)
           /\ SameSide(w.down, {getLongestPolicyPeriod(spec.scaleDown)}, Periods(spec.scaleDown),
                       t1, t2)

\* the inputs of a reconcile of spec whose platform calls all succeed
CleanInputs(spec) ==
  UNION {{[getScaleErr |-> FALSE, selector |-> "app", active |-> active, outcomes |-> outcomes,
           scaleUpdateErr |-> FALSE, statusErr |-> FALSE, updateErr |-> FALSE] :
            outcomes \in [1..NumOutcomes(spec, active) -> Outcome]} :
         active \in SUBSET {i \in 1..Len(spec.cronMetrics) :
                              spec.cronMetrics[i].schedule # "default"}}

\* a reconcile from the present state with inputs in that wrote no scale and
\* left the persisted status equal to the object's status, followed by a
\* reconcile at t2 of object g2 with the same scale and the same inputs
Again(in, t2, g2) ==
  LET r1 == reconcileAutoscaler(gpa, scaleReplicas, win, persisted, now,
                                downscaleStabilisationWindow, in)
  IN  IF r1.panicked \/ r1.scaleCall # Nil \/ r1.persisted # r1.gpa.status
         \/ ~NoExpiry(gpa.spec, r1.w, now, t2)
      THEN [applies |-> FALSE, scaleCall |-> Nil, statusAttempted |-> FALSE]
      ELSE LET r2 == reconcileAutoscaler(IF g2 = "cache" THEN r1.gpa
                                         ELSE [spec |-> apiSpec, status |-> r1.persisted],
                                         scaleReplicas, r1.w, r1.persisted, t2,
                                         downscaleStabilisationWindow, in)
           IN  [applies |-> TRUE, scaleCall |-> r2.scaleCall,
                statusAttempted |-> r2.statusAttempted]

\* C13: a reconcile that repeats the previous one with unchanged inputs (the
\* object as persisted, the same scale, the same proposals, no window entry
\* expired) writes neither the scale nor the status
ReReconcileWritesNothing ==
  ~crashed =>
    \A in \in CleanInputs(gpa.spec), t2 \in {now, now + 1}, g2 \in {"cache", "api"} :
      LET a == Again(in, t2, g2)
      IN  a.applies => a.scaleCall = Nil /\ ~a.statusAttempted

\* the key was just reconciled through a normalizer and the status was
\* persisted; one second later the same inputs come again, no window entry
\* having expired
RepeatedAfterASecond ==
  /\ ranAt
  /\ NormalizerRan
  /\ last.statusAttempted
  /\ persisted = gpa.status
  /\ \E in \in CleanInputs(gpa.spec) : Again(in, now + 1, "api").applies

OnePerType(conditions) ==
  \A i, j \in 1..Len(conditions) : conditions[i].type = conditions[j].type => i = j

\* C14: whatever reconciles ran, the conditions list of the GPA, in the cache
\* and as persisted, holds at most one entry per condition type
NoDuplicateConditionTypes ==
  /\ OnePerType(gpa.status.conditions)
  /\ OnePerType(persisted.conditions)

\* a reconcile set again the conditions that an earlier reconcile had added
ConditionsSetAgain ==
  /\ ranAt
  /\ last.at > 0
  /\ Len(gpa.status.conditions) >= 3
  /\ \E i \in 1..Len(gpa.status.conditions) : gpa.status.conditions[i].lastTransitionTime < now
  /\ \E i \in 1..Len(gpa.status.conditions) : gpa.status.conditions[i].lastTransitionTime = now

ConditionTypes == {"AbleToScale", "ScalingActive", "ScalingLimited"}

\* the effect of one setConditionInList call, one second after the present
\* instant, on the conditions list old
StampsOnStatusChange(old, conditionType, status, reason, message) ==
  LET new == setConditionInList(old, conditionType, status, reason, message, now + 1)
      k   == FindCondition(old, 1, conditionType)
      j   == FindCondition(new, 1, conditionType)
  IN  /\ j # 0
      /\ new[j].status = status /\ new[j].reason = reason /\ new[j].message = message
      /\ k = 0 => Len(new) = Len(old) + 1 /\ j = Len(new) /\ new[j].lastTransitionTime = now + 1
      /\ k # 0 => /\ Len(new) = Len(old)
                  /\ j = k
                  /\ new[k].lastTransitionTime # old[k].lastTransitionTime <=> old[k].status # status
                  /\ old[k].status # status => new[k].lastTransitionTime = now + 1
      /\ \A i \in 1..Len(old) : i # k => new[i] = old[i]

\* C15: setting a condition changes its lastTransitionTime exactly when its
\* status changes or the condition is added; a change of reason or message
\* alone keeps lastTransitionTime, and the other conditions stay as they are
LastTransitionTimeFollowsStatus ==
  \A conditionType \in ConditionTypes, status \in {"True", "False"},
     reason \in {"ReadyForNewScale", "FailedGetScale"}, message \in {0, 1} :
    StampsOnStatusChange(gpa.status.conditions, conditionType, status, reason, message)

\* a reconcile changed the reason of a condition and not its status: the
\* condition keeps the lastTransitionTime of an earlier instant
ReasonChangedStampKept ==
  /\ ranAt
  /\ \E i \in 1..Len(gpa.status.conditions), j \in 1..Len(persisted.conditions) :
       /\ gpa.status.conditions[i].type = persisted.conditions[j].type
       /\ gpa.status.conditions[i].status = persisted.conditions[j].status
       /\ gpa.status.conditions[i].reason # persisted.conditions[j].reason
       /\ gpa.status.conditions[i].lastTransitionTime = persisted.conditions[j].lastTransitionTime
       /\ gpa.status.conditions[i].lastTransitionTime < now

KnownTypes(conditions) == \A i \in 1..Len(conditions) : conditions[i].type \in ConditionTypes

\* C16: every entry of status.conditions, in the cache and as persisted, has
\* type AbleToScale, ScalingActive or ScalingLimited
ConditionTypesAreKnown ==
  /\ KnownTypes(gpa.status.conditions)
  /\ KnownTypes(persisted.conditions)

\* the reconcile of the present instant wrote the scale with success
ScaleWrittenNow == ranAt /\ last.at = now /\ last.scaleCall # Nil /\ last.scaleOk

\* C17: a status carries the present instant as lastScaleTime or as
\* lastCronScheduleTime only if the reconcile of this instant wrote the scale
\* with success, and as lastCronScheduleTime only with TimeMode or
\* CronMetricMode set
StampedOnlyAfterScaleWrite ==
  \A status \in {gpa.status, persisted} :
    /\ status.lastScaleTime = now => ScaleWrittenNow
    /\ status.lastCronScheduleTime = now =>
         ScaleWrittenNow /\ (gpa.spec.timeMode \/ gpa.spec.mode = "cron")

\* a reconcile of a GPA in cron mode wrote the scale and stamped both times
CronRescaleStamped ==
  /\ ScaleWrittenNow
  /\ gpa.spec.mode = "cron"
  /\ persisted.lastScaleTime = now
  /\ persisted.lastCronScheduleTime = now

\* the reconcile of the present instant read the target's scale
ReconciledNow == ranAt /\ last.at = now /\ last.obs.path \notin {"none", "getScaleErr"}

\* the events and conditions that the evaluation of a driving mode leaves
ModeEvents ==
  {"SelectorRequired", "InvalidSelector", "FailedGetMetric", "FailedComputeMetricsReplicas"}

HasCondition(conditions, conditionType, status, reason) ==
  \E i \in 1..Len(conditions) :
    /\ conditions[i].type = conditionType
    /\ conditions[i].status = status
    /\ conditions[i].reason = reason

\* C18: a reconcile that finds the target at 0 replicas while the effective
\* minReplicas is not 0 writes no scale, evaluates no driving mode and sets
\* ScalingActive=False/ScalingDisabled; the target is still at 0 afterwards
ZeroTargetStaysDisabled ==
  (ReconciledNow /\ last.obs.currentReplicas = 0 /\ last.obs.minReplicas # 0) =>
    /\ last.scaleCall = Nil
    /\ scaleReplicas = 0
    /\ last.obs.path = "disabled"
    /\ last.events \cap ModeEvents = {}
    /\ HasCondition(gpa.status.conditions, "ScalingActive", "False", "ScalingDisabled")

\* the target was at 0 at two instants in a row and both reconciles found
\* autoscaling disabled
DisabledTwice ==
  /\ ReconciledNow
  /\ last.obs.path = "disabled"
  /\ now > 0
  /\ \E i \in 1..Len(gpa.status.conditions) :
       /\ gpa.status.conditions[i].reason = "ScalingDisabled"
       /\ gpa.status.conditions[i].lastTransitionTime < now

\* C19: when the target is not at 0 with a non-zero minimum, a reconcile
\* that finds current > max asks for exactly max, else one that finds
\* current < min asks for exactly min, both without evaluating a driving
\* mode; a driving mode is evaluated only when min <= current <= max
GatesInOrder ==
  LET o == last.obs
  IN  (ReconciledNow /\ ~(o.currentReplicas = 0 /\ o.minReplicas # 0)) =>
        /\ o.currentReplicas > o.maxReplicas =>
             /\ o.path = "aboveMax"
             /\ o.desired = o.maxReplicas
             /\ last.scaleCall = o.maxReplicas
             /\ last.events \cap ModeEvents = {}
        /\ (o.currentReplicas <= o.maxReplicas /\ o.currentReplicas < o.minReplicas) =>
             /\ o.path = "belowMin"
             /\ o.desired = o.minReplicas
             /\ last.scaleCall = o.minReplicas
             /\ last.events \cap ModeEvents = {}
        /\ o.path \in {"emptyMode", "metricErr", "legacy", "behavior"} <=>
             (o.minReplicas <= o.currentReplicas /\ o.currentReplicas <= o.maxReplicas)

\* a target found above max was written down to exactly max
AboveMaxCutToMax ==
  /\ ReconciledNow
  /\ last.obs.currentReplicas > last.obs.maxReplicas
  /\ last.scaleOk
  /\ scaleReplicas = last.obs.maxReplicas

\* the inputs of a reconcile of spec in which the replica calculator fails
\* for every metric, with each answer of the status write
AllMetricsFail(spec) ==
  {[in EXCEPT !.statusErr = f, !.updateErr = f] :
     in \in {c \in CleanInputs(spec) : /\ Len(c.outcomes) >= 1
                                       /\ \A i \in 1..Len(c.outcomes) : c.outcomes[i].err},
     f \in BOOLEAN}

\* C20: when the metric or cron mode is evaluated, it has at least one
\* metric and every one of its metrics fails, the reconcile returns an
\* error, sets ScalingActive=False with the reason and message of the first
\* failing metric, writes no scale, keeps status.desiredReplicas and sets
\* status.currentReplicas to the target's replica count
AllMetricsFailedKeepsDesired ==
  ~crashed =>
    \A in \in AllMetricsFail(gpa.spec) :
      LET r == reconcileAutoscaler(gpa, scaleReplicas, win, persisted, now,
                                   downscaleStabilisationWindow, in)
      IN  (/\ gpa.spec.mode \in {"metric", "cron"}
           /\ Gate(scaleReplicas, r.obs.minReplicas, r.obs.maxReplicas) = "mode") =>
            /\ r.err
            /\ "FailedComputeMetricsReplicas" \in r.events
            /\ \E i \in 1..Len(r.gpa.status.conditions) :
                 r.gpa.status.conditions[i] =
                   [type |-> "ScalingActive", status |-> "False", reason |-> "FailedGetMetric",
                    message |-> 1,
                    lastTransitionTime |-> r.gpa.status.conditions[i].lastTransitionTime]
            /\ r.scaleCall = Nil
            /\ r.gpa.status.desiredReplicas = gpa.status.desiredReplicas
            /\ r.gpa.status.currentReplicas = scaleReplicas
            /\ (r.statusAttempted /\ ~in.statusErr) => r.persisted = r.gpa.status

\* both metrics of a GPA failed in the reconcile of this instant: the status
\* took the target's replica count and kept an older desired count
BothMetricsFailed ==
  /\ ReconciledNow
  /\ last.obs.path = "metricErr"
  /\ gpa.spec.metrics = 2
  /\ "FailedGetMetric" \in last.events
  /\ last.err
  /\ gpa.status.currentReplicas = scaleReplicas
  /\ gpa.status.desiredReplicas # scaleReplicas
  /\ persisted = gpa.status

\* the call of GetCurrentMaxAndMinReplicas has returned or panicked
Resolved == pureResult.fn = "GetCurrentMaxAndMinReplicas"

\* entry i wins: active, of the greatest priority among the active entries,
\* and the last of that priority in list order
Winner(ranges, active, i) ==
  /\ i \in active
  /\ \A j \in active : ranges[j].priority <= ranges[i].priority
  /\ \A j \in active : ranges[j].priority = ranges[i].priority => j <= i

\* C21: with a non-default schedule active, GetCurrentMaxAndMinReplicas
\* returns the bounds and the name of the active entry of greatest priority,
\* the last one in list order among equals
HighestPriorityActiveWins ==
  (Resolved /\ pureCase.active # {}) =>
    /\ ~pureResult.value.panicked
    /\ \E i \in pureCase.active :
         /\ Winner(pureCase.ranges, pureCase.active, i)
         /\ pureResult.value.max = pureCase.ranges[i].maxReplicas
         /\ pureResult.value.min = pureCase.ranges[i].minReplicas
         /\ pureResult.value.scheduleName = pureCase.ranges[i].schedule

\* the default entry of the list: NewCronMetricsScaler keeps the last one
DefaultOf(ranges) == DefaultSetLoop(ranges, 1, ZeroCronMetricSpec)

\* C22: with no non-default schedule active, GetCurrentMaxAndMinReplicas
\* returns the default entry's maxReplicas and minReplicas and the name
\* "default"
InactiveResolvesToDefault ==
  (Resolved /\ pureCase.active = {}) =>
    /\ ~pureResult.value.panicked
    /\ pureResult.value.max = DefaultOf(pureCase.ranges).maxReplicas
    /\ pureResult.value.min = DefaultOf(pureCase.ranges).minReplicas
    /\ pureResult.value.scheduleName = "default"

\* the call of getFinalMatchAndMisMatch has returned
Matched == pureResult.fn = "getFinalMatchAndMisMatch"

\* the schedule of the call carries a year, and it is not the year of now
OtherYear ==
  /\ Len(pureCase.schedule) > 1
  /\ pureCase.schedule[2] # Year(pureCase.now)

\* the entries of the example: one year-bound schedule and the default
YearGuardRanges ==
  <<[schedule |-> "s1", minReplicas |-> 5, maxReplicas |-> 7, priority |-> 100],
    [schedule |-> "default", minReplicas |-> 9, maxReplicas |-> 10, priority |-> 0]>>

\* C23: a schedule with a year is not active in another year, whatever its
\* other fields, and a list of such a schedule and a default of bounds
\* (9, 10) resolves to the default
OtherYearNeverActive ==
  (Matched /\ OtherYear) =>
    /\ pureResult.value = NoMatch
    /\ GetCurrentMaxAndMinReplicas(YearGuardRanges,
                                   IF pureResult.value = NoMatch THEN {} ELSE {1})
         = [max |-> 10, min |-> 9, scheduleName |-> "default", panicked |-> FALSE]

\* the five fields match now, only the year does not
RightMinuteWrongYear ==
  /\ Matched
  /\ OtherYear
  /\ getFinalMatchAndMisMatchAnyYear(pureCase.schedule, pureCase.now, pureCase.wall) # NoMatch
  /\ pureResult.value = NoMatch

\* the call of validateCronMetric is over
ValidatedCron == pureResult.fn = "validateCronMetric"

\* two entries share a firing instant: year-agnostic ones a minute of the
\* year, year-bound ones a minute of the same year
ShareInstant(e1, e2) ==
  LET p1 == ParseStandardWithYear(e1.schedule)
      p2 == ParseStandardWithYear(e2.schedule)
  IN  /\ p1.year = p2.year
      /\ p1.sched \cap p2.sched # {}

SameBucket(e1, e2) ==
  (ParseStandardWithYear(e1.schedule).year = 0)
    = (ParseStandardWithYear(e2.schedule).year = 0)

Conflicting(e1, e2) ==
  /\ SameBucket(e1, e2)
  /\ e1.priority = e2.priority
  /\ ShareInstant(e1, e2)
  /\ ~(e1.schedule = e2.schedule /\ e1.resource # e2.resource)

\* C24: validateCronMetric reports a conflict exactly when two entries of
\* one bucket with equal priority share a firing instant, identical
\* schedules on different resources excepted, and the verdict does not
\* depend on the wall-clock time of the validation
ConflictVerdictExact ==
  ValidatedCron =>
    /\ ~pureResult.value.diverges
    /\ pureResult.value.conflict
         <=> Conflicting(pureCase.cronMetrics[1], pureCase.cronMetrics[2])
    /\ \A t \in 0..(TicksPerYear - 1) :
         validateCronMetric(pureCase.cronMetrics, t) = pureResult.value

\* the call of validateMetricSpec has returned
ValidatedMetric == pureResult.fn = "validateMetricSpec"

\* C25: validateMetricSpec accepts an entry only if exactly one source
\* field is populated and it is the one the type names; a second populated
\* source is an error
AcceptedHasOnlyTheTypedSource ==
  (ValidatedMetric /\ pureResult.value = {}) =>
    /\ pureCase.spec.type \in validMetricSourceTypes
    /\ pureCase.spec.populated = {ExpectedField(pureCase.spec.type)}

\* the limit functions were called with one policy and the default selectPolicy
OnePolicy(direction) ==
  /\ limitResult.direction = direction
  /\ Len(limitCase.policies) = 1
  /\ limitCase.selectPolicy = "Max"

\* the sum of the changes a policy's period covers
ChangesInPeriod ==
  getReplicasChangePerPeriod(limitCase.policies[1].periodSeconds, limitCase.scaleEvents,
                             limitCase.now)

\* the limit the arithmetic of the policy gives
PolicyLimit(direction) ==
  LET policy == limitCase.policies[1]
      periodStart == IF direction = "up" THEN limitCase.currentReplicas - ChangesInPeriod
                     ELSE limitCase.currentReplicas + ChangesInPeriod
  IN  CASE direction = "up" /\ policy.type = "Pods" -> periodStart + policy.value
        [] direction = "up" /\ policy.type = "Percent" ->
             CeilDiv100(periodStart * (100 + policy.value))
        [] direction = "down" /\ policy.type = "Pods" -> periodStart - policy.value
        [] direction = "down" /\ policy.type = "Percent" ->
             TruncDiv100(periodStart * (100 - policy.value))

\* current 10, proposal 30, inside wide bounds
ExampleArgs ==
  [CurrentReplicas |-> limitCase.currentReplicas, DesiredReplicas |-> 30,
   MinReplicas |-> 1, MaxReplicas |-> 100,
   ScaleUpBehavior |-> RulesOf(limitCase), ScaleDownBehavior |-> RulesOf(limitCase)]

\* C30: the limit of a policy is periodStart + value resp. periodStart -
\* value for Pods and ceil(periodStart*(100+value)/100) resp. the truncated
\* periodStart*(100-value)/100 for Percent, periodStart being current minus
\* resp. plus the changes of the period; current 10 with the Pods policy
\* {4, 60s}, an empty log and a proposal of 30 gives 14, ScaleUpLimit
PolicyLimitArithmetic ==
  /\ OnePolicy("up") => limitResult.value = PolicyLimit("up")
  /\ OnePolicy("down") => limitResult.value = PolicyLimit("down")
  /\ (/\ OnePolicy("up")
      /\ limitCase.currentReplicas = 10
      /\ limitCase.scaleEvents = <<>>
      /\ limitCase.policies[1] = [type |-> "Pods", value |-> 4, periodSeconds |-> 60])
     => convertDesiredReplicasWithBehaviorRate(ExampleArgs, <<>>, <<>>, limitCase.now)
          = [replicas |-> 14, reason |-> "ScaleUpLimit"]

\* the keys that wait for a worker
Pending(q) == q.dirty \cup {q.queue[i] : i \in 1..Len(q.queue)}

\* a worker is inside processNextWorkItem
InFlight(w) == worker[w].pc \notin {"Get", "Exited"}

AllExited == \A w \in Workers : worker[w].pc = "Exited"

\* C26: once the queue is shut down no key joins it, so no reconcile starts
\* for a key added after the shutdown; no reconcile in flight is abandoned;
\* and every worker eventually leaves its loop
ShutdownDrainsWorkers ==
  /\ [][wq.shuttingDown =>
          /\ Pending(wq') \subseteq Pending(wq)
          /\ \A w \in Workers :
               InFlight(w) => (InFlight(w)' \/ worker'[w].pc = "Get")]_vars
  /\ (wq.shuttingDown ~> AllExited)

\* a worker left its loop after it finished a reconcile that was in flight
\* at the shutdown
ExitedAfterDrain ==
  /\ wq.shuttingDown
  /\ AllExited
  /\ windows["recommendations"] # {}

\* the last reconcile returned an error
EndedWithError == ranAt /\ last.at = now /\ last.err /\ ~last.panicked

\* C27: a reconcile that ends with an error (scale fetch, metric
\* computation, scale update, refusal to scale to zero) has attempted a
\* status update before it returned, unless the status the API server holds
\* is already the one the reconcile computed
ErrorReflectedInStatus ==
  EndedWithError => (last.statusAttempted \/ persisted = gpa.status)

\* C28: no reconcile of an admitted GPA panics, whatever the platform
\* clients answer: reconcile returns and the worker lives on
ReconcileNeverPanics == ~last.panicked /\ ~crashed

\* a reconcile from the present state with inputs in whose status write the
\* API server refuses, followed a second later by a reconcile of the cached
\* object with the same scale and the same inputs, the writes now accepted
RetryAfterFailedWrite(in) ==
  LET failing == [in EXCEPT !.statusErr = TRUE, !.updateErr = TRUE]
      r1 == reconcileAutoscaler(gpa, scaleReplicas, win, persisted, now,
                                downscaleStabilisationWindow, failing)
  IN  IF r1.panicked \/ r1.scaleCall # Nil \/ ~(r1.statusAttempted /\ r1.err)
         \/ ~NoExpiry(gpa.spec, r1.w, now, now + 1)
      THEN [applies |-> FALSE, statusAttempted |-> FALSE, converged |-> FALSE]
      ELSE LET r2 == reconcileAutoscaler(r1.gpa, scaleReplicas, r1.w, r1.persisted, now + 1,
                                         downscaleStabilisationWindow, in)
           IN  [applies |-> TRUE, statusAttempted |-> r2.statusAttempted,
                converged |-> r2.persisted = r2.gpa.status]

\* C29: after a reconcile whose status write failed, the next reconcile of
\* the key with otherwise unchanged inputs attempts the write again, and
\* the persisted status becomes the status the controller computed
FailedStatusWriteRetried ==
  ~crashed =>
    \A in \in CleanInputs(gpa.spec) :
      LET a == RetryAfterFailedWrite(in)
      IN  a.applies => a.statusAttempted /\ a.converged

MaxMetrics == 2

\* the metrics of outcomes that computed without error
Computed(outcomes) == {i \in 1..Len(outcomes) : ~outcomes[i].err}

\* the largest proposal among the metrics that computed without error
MaxProposalOf(outcomes) ==
  CHOOSE r \in {outcomes[i].replicas : i \in Computed(outcomes)} :
    \A i \in Computed(outcomes) : outcomes[i].replicas <= r

\* the first metric in declaration order that attains the largest proposal
FirstMaximal(outcomes) ==
  CHOOSE i \in Computed(outcomes) :
    /\ outcomes[i].replicas = MaxProposalOf(outcomes)
    /\ \A j \in Computed(outcomes) :
         outcomes[j].replicas = MaxProposalOf(outcomes) => i <= j

\* C31: computeReplicasForMetrics returns the largest proposal among the
\* metrics that computed without error, and the metric it names (whose
\* timestamp it returns) is the first in declaration order that attains it:
\* a later metric replaces the choice only when its proposal is strictly
\* greater, for every proposal value, 0 included
FirstMaximalMetricChosen ==
  \A n \in 1..MaxMetrics :
    \A outcomes \in [1..n -> Outcome] :
      LET r == computeReplicasForMetrics(gpa, "app", outcomes, FALSE, now)
      IN  Computed(outcomes) # {} =>
            /\ ~r.err
            /\ r.replicas = MaxProposalOf(outcomes)
            /\ r.metric = FirstMaximal(outcomes)

\* t is a firing instant of the five fields sched: the start of a minute
\* the fields match
Firing(sched, t) == t % TicksPerMinute = 0 /\ MinuteOfYear(t) \in sched

\* the activity rule stated on now alone: the year guard, then misMatch the
\* last firing <= now met from (now - 1 hour, truncated to the hour) on,
\* match the first firing > now, and the test of the one-minute window
WindowRule(schedule, theNow) ==
  LET parsed == ParseStandardWithYear(schedule)
      start == ((theNow - TicksPerHour) \div TicksPerHour) * TicksPerHour
      fired == {t \in start..theNow : t = start \/ Firing(parsed.sched, t)}
      misMatch == CHOOSE t \in fired : \A u \in fired : u <= t
      match == CHOOSE t \in (theNow + 1)..(theNow + TicksPerYear + TicksPerMinute) :
                 /\ Firing(parsed.sched, t)
                 /\ \A u \in (theNow + 1)..(t - 1) : ~Firing(parsed.sched, u)
  IN  IF parsed.year # 0 /\ parsed.year # Year(theNow) THEN NoMatch
      ELSE IF /\ theNow - misMatch <= TicksPerMinute
              /\ (match - theNow <= TicksPerMinute \/ Minute(misMatch) = Minute(theNow))
           THEN [misMatch |-> misMatch, match |-> match]
           ELSE NoMatch

\* C32: for every schedule and every instant now the resolver holds, the
\* schedule is active iff now - misMatch <= 1 minute and (match - now <= 1
\* minute or misMatch.minute = now.minute), misMatch and match being found
\* from (now - 1 hour, truncated to the hour); the verdict depends on the
\* schedule and on now only, not on the process clock
VerdictDependsOnNowOnly ==
  Matched => pureResult.value = WindowRule(pureCase.schedule, pureCase.now)

\* longest time without a reconcile of the key, in seconds
MaxGap == 3

\* the longest stabilization window of the path the GPA is normalized by
LongestStabilizationWindow(spec) ==
  IF ~spec.behaviorSet THEN downscaleStabilisationWindow
  ELSE max(spec.scaleUp.stabilizationWindowSeconds,
           IF spec.scaleDown.stabilizationWindowSeconds = Nil
           THEN downscaleStabilisationWindow
           ELSE spec.scaleDown.stabilizationWindowSeconds)

\* the recommendations of recs that are not older than the window at t
InWindow(recs, window, t) ==
  {i \in 1..Len(recs) : recs[i].timestamp >= t - window}

\* the next reconcile of the key happens gap seconds from now, with inputs
\* in, and reaches the stabilizer
ReconcileAfterGap(in, gap) ==
  LET r == reconcileAutoscaler(gpa, scaleReplicas, win, persisted, now + gap,
                               downscaleStabilisationWindow, in)
  IN  [applies |-> r.obs.path \in {"legacy", "behavior"},
       size |-> Len(r.w.recs),
       recent |-> Cardinality(InWindow(r.w.recs, LongestStabilizationWindow(gpa.spec), now + gap))]

\* C33: after any reconcile that reaches the stabilizer, recommendations[key]
\* holds at most 1 + (the number of its entries not older than the longest
\* stabilization window) entries, whatever the time since the reconcile
\* before
RecommendationsWindowBounded ==
  ~crashed =>
    \A gap \in (IF ranAt THEN 1 ELSE 0)..MaxGap :
      \A in \in CleanInputs(gpa.spec) :
        LET a == ReconcileAfterGap(in, gap)
        IN  a.applies => a.size <= 1 + a.recent

\* the reconcile of this instant is over
JustRan == ranAt /\ last.at = now

\* index of the first slot older than the period, 0 when there is none
FirstOutdated(scaleEvents, period, t) ==
  IF \E i \in 1..Len(scaleEvents) : scaleEvents[i].timestamp < t - period
  THEN CHOOSE i \in 1..Len(scaleEvents) :
         /\ scaleEvents[i].timestamp < t - period
         /\ \A j \in 1..(i - 1) : ~(scaleEvents[j].timestamp < t - period)
  ELSE 0

\* the window after one event was recorded as the bookkeeping rule says:
\* the first slot older than the period is overwritten, or the event is
\* appended; the flag of a slot tells whether it is older than the period
Recorded(scaleEvents, period, replicaChange, t) ==
  LET flagged == [i \in 1..Len(scaleEvents) |->
                    [scaleEvents[i] EXCEPT !.outdated = (scaleEvents[i].timestamp < t - period)]]
      slot == FirstOutdated(scaleEvents, period, t)
      e == [replicaChange |-> replicaChange, timestamp |-> t, outdated |-> FALSE]
  IN  IF slot # 0 THEN [flagged EXCEPT ![slot] = e] ELSE Append(flagged, e)

\* what the rule makes of the windows upEvents, downEvents when the scale
\* was written from prevReplicas to newReplicas at t
RecordedWindows(spec, upEvents, downEvents, prevReplicas, newReplicas, t) ==
  IF newReplicas > prevReplicas
  THEN [up |-> Recorded(upEvents, getLongestPolicyPeriod(spec.scaleUp),
                        newReplicas - prevReplicas, t),
        down |-> downEvents]
  ELSE [up |-> upEvents,
        down |-> Recorded(downEvents, getLongestPolicyPeriod(spec.scaleDown),
                          prevReplicas - newReplicas, t)]

\* C34: after every successful scale write from old to new replicas exactly
\* one event (|new - old|, now, outdated = false) is recorded, in
\* scaleUpEvents[key] when new > old and in scaleDownEvents[key] otherwise;
\* it overwrites the first slot older than that direction's longest policy
\* period or is appended when there is none, and the window of the other
\* direction is unchanged, whatever the time since the reconcile before
ScaleWriteRecordsOneEvent ==
  ~crashed =>
    \A gap \in (IF ranAt THEN 1 ELSE 0)..MaxGap :
      \A in \in CleanInputs(gpa.spec) :
        LET r == reconcileAutoscaler(gpa, scaleReplicas, win, persisted, now + gap,
                                     downscaleStabilisationWindow, in)
            expected == RecordedWindows(gpa.spec, win.up, win.down, scaleReplicas,
                                        r.scaleCall, now + gap)
        IN  (r.scaleCall # Nil /\ r.scaleOk) =>
              /\ r.w.up = expected.up
              /\ r.w.down = expected.down

\* the call of convertDesiredReplicasWithBehaviorRate has returned
Converted == pureResult.fn = "convertDesiredReplicasWithBehaviorRate"

\* the limits the scaling rules compute for the call, before any pinning
ComputedUpLimit ==
  calculateScaleUpLimitWithScalingRules(limitCase.currentReplicas, limitCase.scaleEvents,
                                        RulesOf(limitCase), limitCase.now)

ComputedDownLimit ==
  calculateScaleDownLimitWithBehaviors(limitCase.currentReplicas, limitCase.scaleEvents,
                                       RulesOf(limitCase), limitCase.now)

\* C35: in the behavior path a computed scale-up limit below current is
\* replaced by current and a computed scale-down limit above current is
\* replaced by current: a stabilized recommendation above current is never
\* normalized to less than current, one below current never to more than
\* current, for every content of the event windows
LimitPinnedAtCurrent ==
  Converted =>
    LET a == pureResult.args
        cur == a.CurrentReplicas
        upLimit == max(ComputedUpLimit, cur)
        downLimit == min(ComputedDownLimit, cur)
    IN  /\ a.DesiredReplicas > cur =>
             /\ pureResult.value.replicas = min(a.DesiredReplicas, min(a.MaxReplicas, upLimit))
             /\ pureResult.value.replicas >= cur
        /\ a.DesiredReplicas < cur =>
             /\ pureResult.value.replicas = max(a.DesiredReplicas, max(a.MinReplicas, downLimit))
             /\ pureResult.value.replicas <= cur

\* a scale-up whose events leave a limit below current: the result is current
ScaleUpPinnedAtCurrent ==
  /\ Converted
  /\ pureResult.args.DesiredReplicas > pureResult.args.CurrentReplicas
  /\ limitCase.selectPolicy = "Max"
  /\ ComputedUpLimit < pureResult.args.CurrentReplicas
  /\ pureResult.value.replicas = pureResult.args.CurrentReplicas

\* the inputs of a reconcile whose scale Update call fails, should it be made
FailedUpdateInputs(spec) ==
  {[in EXCEPT !.scaleUpdateErr = TRUE, !.statusErr = f, !.updateErr = f] :
     in \in CleanInputs(spec), f \in BOOLEAN}

\* the time after is not a stamp of the instant t put over before
NotStamped(before, after, t) == after = before \/ after # t

\* C36: when the scale Update call fails, the reconcile sets
\* AbleToScale=False with reason FailedUpdateScale, returns an error, records
\* no scale event in either window, stamps neither lastScaleTime nor
\* lastCronScheduleTime and leaves status.desiredReplicas as it was
FailedUpdateLeavesNoTrace ==
  ~crashed =>
    \A in \in FailedUpdateInputs(gpa.spec) :
      LET r == reconcileAutoscaler(gpa, scaleReplicas, win, persisted, now,
                                   downscaleStabilisationWindow, in)
      IN  (r.scaleCall # Nil /\ ~r.scaleOk) =>
            /\ r.err
            /\ HasCondition(r.gpa.status.conditions, "AbleToScale", "False", "FailedUpdateScale")
            /\ r.w.up = win.up
            /\ r.w.down = win.down
            /\ NotStamped(gpa.status.lastScaleTime, r.gpa.status.lastScaleTime, now)
            /\ NotStamped(gpa.status.lastCronScheduleTime, r.gpa.status.lastCronScheduleTime, now)
            /\ r.gpa.status.desiredReplicas = gpa.status.desiredReplicas

\* a scale Update has just failed, after an earlier reconcile scaled to
\* another count than the one refused now
ScaleUpdateJustFailed ==
  /\ JustRan
  /\ last.scaleCall # Nil
  /\ ~last.scaleOk
  /\ last.err
  /\ HasCondition(gpa.status.conditions, "AbleToScale", "False", "FailedUpdateScale")
  /\ gpa.status.lastScaleTime # Nil
  /\ gpa.status.lastScaleTime < now
  /\ gpa.status.desiredReplicas # last.scaleCall

\* C37: a reconcile never changes the GPA object of the shared informer
\* cache: whatever its outcome, the object the lister returns has the same
\* spec (minReplicas and maxReplicas under CronMetricMode included) and the
\* same status after the reconcile as before, until the informer replaces it
ReconcileLeavesCacheUntouched ==
  ~crashed =>
    \A in \in CleanInputs(gpa.spec) :
      LET r == reconcileAutoscaler(gpa, scaleReplicas, win, persisted, now,
                                   downscaleStabilisationWindow, in)
      IN  /\ r.gpa.spec = gpa.spec
          /\ r.gpa.status = gpa.status

\* worker w has returned from GetCurrentMaxAndMinReplicas and not yet
\* started the next call
Returned(w) == resolver[w].returned /\ resolver[w].pc = "Start"

\* C38: with several workers resolving the cron windows of different GPAs
\* side by side, the schedule name a worker gets back is "default" or the
\* schedule of an entry of its own GPA and is the one the returned
\* (max, min) belong to, so the cron metric specs looked up by the name are
\* those of the selected window
ScheduleNameIsOwnSelection ==
  \A w \in Workers :
    Returned(w) =>
      LET own == GetCurrentMaxAndMinReplicas(ResolveRanges(w), resolver[w].active)
      IN  /\ resolver[w].scheduleName \in
               {"default"} \cup {ResolveRanges(w)[i].schedule : i \in 1..Len(ResolveRanges(w))}
          /\ resolver[w].max = own.max
          /\ resolver[w].min = own.min
          /\ resolver[w].scheduleName = own.scheduleName
          /\ GetCurrentCronMetricSpecs(ResolveRanges(w), resolver[w].scheduleName)
               = GetCurrentCronMetricSpecs(ResolveRanges(w), own.scheduleName)

\* the inputs of a reconcile, the scale Update and the status write failing
\* or not
AnyInputs(spec) ==
  {[in EXCEPT !.scaleUpdateErr = u, !.statusErr = f, !.updateErr = f] :
     in \in CleanInputs(spec), u \in BOOLEAN, f \in BOOLEAN}

\* C39: a reconcile that performs no successful scale write leaves
\* status.lastScaleTime and status.lastCronScheduleTime as they were: the
\* status it computes neither stamps nor clears them
NoWriteKeepsScaleTimes ==
  ~crashed =>
    \A in \in AnyInputs(gpa.spec) :
      LET r == reconcileAutoscaler(gpa, scaleReplicas, win, persisted, now,
                                   downscaleStabilisationWindow, in)
      IN  (~r.panicked /\ ~(r.scaleCall # Nil /\ r.scaleOk)) =>
            /\ r.gpa.status.lastScaleTime = gpa.status.lastScaleTime
            /\ r.gpa.status.lastCronScheduleTime = gpa.status.lastCronScheduleTime

\* the call was made for a schedule without a year by a scaler built at the
\* instant it resolves (NewCronMetricsScaler)
YearAgnosticAtNow ==
  /\ Matched
  /\ Len(pureCase.schedule) = 1
  /\ pureCase.wall = pureCase.now

\* now truncated to the minute
TruncateToMinute(t) == (t \div TicksPerMinute) * TicksPerMinute

\* C40: a schedule without a year is reported active at now if and only if
\* its cron expression fires in the minute that contains now, for every
\* offset of now within the minute, the start of the minute included
ActiveIffMinuteFires ==
  YearAgnosticAtNow =>
    ((pureResult.value # NoMatch)
       <=> Firing(pureCase.schedule[1], TruncateToMinute(pureCase.now)))
====
